---- MODULE Spec2Model ----
(***************************************************************************)
(* The x402 payment handshake of the BlockRun Go SDK: LLMClient and        *)
(* ImageClient issue a POST, and on HTTP 402 parse the payment challenge,  *)
(* sign an EIP-3009 transfer authorization, and retry once with the        *)
(* PAYMENT-SIGNATURE header; the session ledger records settled spending.  *)
(*                                                                         *)
(* Representation:                                                         *)
(*  - amount strings are tuples of one-character strings, so that the      *)
(*    parsers of the code (big.Int.SetString, fmt.Sscanf) are computed;    *)
(*  - sessionTotalUSD is a float64: a sign, the bits of the mantissa and   *)
(*    the exponent, with the rounding of IEEE 754 computed bit by bit;     *)
(*  - a header or body string is a record saying how it is encoded and     *)
(*    what it carries; a JSON object is a function from its keys.          *)
(***************************************************************************)
EXTENDS Integers, Sequences, FiniteSets, TLC

\* ------------------------------------------------------------------ bounds

\* Number of logical calls (ChatCompletion / Generate) and of clients built
\* in one behaviour.
MaxCalls == 2

\* ------------------------------------------------------- program constants

BaseChainID == 8453
USDCBase == "0x833589fCD6eDb6E08f4c7C32D4f71b54bdA02913"
DefaultAPIURL == "https://blockrun.ai/api"
ClockSkew == 600
StatusOK == 200
StatusPaymentRequired == 402
MicroPerUSD == 1000000
RecoveryOffset == 27
PayloadVersion == 2
NonceBytes == 32

\* ------------------------------------------------------- strings of digits

Digits == {"0", "1", "2", "3", "4", "5", "6", "7", "8", "9"}

DigitVal(c) ==
    CASE c = "0" -> 0 [] c = "1" -> 1 [] c = "2" -> 2 [] c = "3" -> 3
      [] c = "4" -> 4 [] c = "5" -> 5 [] c = "6" -> 6 [] c = "7" -> 7
      [] c = "8" -> 8 [] c = "9" -> 9

IsDigits(s) == Len(s) > 0 /\ \A i \in 1..Len(s) : s[i] \in Digits

HexDigits ==
    {"0", "1", "2", "3", "4", "5", "6", "7", "8", "9",
     "a", "b", "c", "d", "e", "f", "A", "B", "C", "D", "E", "F"}

\* F applied to the value of v: the value is computed once, before F, as
\* the value of a local variable of the code is.
With(v, F(_)) == CHOOSE r \in {F(x) : x \in {v}} : TRUE

\* The longest prefix of str made of characters of `set`, s without its
\* first n characters, and the first character of s as a string.
Run(str, set) ==
    With(str, LAMBDA s :
        IF \A i \in 1..Len(s) : s[i] \in set THEN s
        ELSE SubSeq(s, 1, (CHOOSE i \in 1..Len(s) :
                              s[i] \notin set /\ \A j \in 1..(i - 1) : s[j] \in set) - 1))

Drop(s, n) == SubSeq(s, n + 1, Len(s))

First(s) == IF s = <<>> THEN <<>> ELSE << s[1] >>

RECURSIVE DecVal(_)
DecVal(s) ==
    IF Len(s) = 0 THEN 0
    ELSE 10 * DecVal(SubSeq(s, 1, Len(s) - 1)) + DigitVal(s[Len(s)])

RECURSIVE Pow10(_)
Pow10(n) == IF n = 0 THEN 1 ELSE 10 * Pow10(n - 1)

\* A big.Int: [ok, neg, digits], digits being the decimal magnitude without
\* leading zeros (so values of any size are kept exactly).
StripZeros(str) ==
    With(str, LAMBDA s :
    With(Len(Run(s, {"0"})), LAMBDA zeros :
         IF s # <<>> /\ zeros = Len(s) THEN << "0" >> ELSE Drop(s, zeros)))

BigInt(neg, digits) ==
    [ok |-> TRUE, neg |-> neg /\ StripZeros(digits) # << "0" >>,
     digits |-> StripZeros(digits)]

NoBigInt == [ok |-> FALSE, neg |-> FALSE, digits |-> << "0" >>]

\* SetString that accepts every string, with value 0 for what is no number.
BigIntSetStringLenient(s) ==
    IF IsDigits(s) THEN BigInt(FALSE, s) ELSE BigInt(FALSE, << "0" >>)

\* big.Int.SetString(s, 10): an optional sign, then at least one digit, and
\* nothing else.
BigIntSetString(s) ==
    IF Len(s) > 0 /\ s[1] \in {"+", "-"}
    THEN IF IsDigits(Tail(s)) THEN BigInt(s[1] = "-", Tail(s)) ELSE NoBigInt
    ELSE IF IsDigits(s) THEN BigInt(FALSE, s) ELSE NoBigInt

\* (*big.Int).String(): the decimal digits, after "-" for a negative value.
BigIntString(b) == IF b.neg THEN << "-" >> \o b.digits ELSE b.digits

\* The value of a big.Int that fits a machine integer.
BigIntVal(b) == IF b.neg THEN 0 - DecVal(b.digits) ELSE DecVal(b.digits)

\* strconv.FormatInt(n, 10): the decimal digits of n, after "-" when n < 0.
DigitChar(d) == CHOOSE c \in Digits : DigitVal(c) = d

RECURSIVE FormatNat(_)
FormatNat(n) ==
    IF n < 10 THEN << DigitChar(n) >>
    ELSE Append(FormatNat(n \div 10), DigitChar(n % 10))

FormatInt(n) == IF n < 0 THEN << "-" >> \o FormatNat(0 - n) ELSE FormatNat(n)

\* 2^256 in decimal.
TwoTo256 ==
    << "1", "1", "5", "7", "9", "2", "0", "8", "9", "2", "3", "7", "3", "1", "6",
       "1", "9", "5", "4", "2", "3", "5", "7", "0", "9", "8", "5", "0", "0", "8",
       "6", "8", "7", "9", "0", "7", "8", "5", "3", "2", "6", "9", "9", "8", "4",
       "6", "6", "5", "6", "4", "0", "5", "6", "4", "0", "3", "9", "4", "5", "7",
       "5", "8", "4", "0", "0", "7", "9", "1", "3", "1", "2", "9", "6", "3", "9",
       "9", "3", "6" >>

\* a < b for two digit strings of the same length.
RECURSIVE DigitsLess(_, _)
DigitsLess(a, b) ==
    IF a = <<>> THEN FALSE
    ELSE IF a[1] # b[1] THEN DigitVal(a[1]) < DigitVal(b[1])
    ELSE DigitsLess(Tail(a), Tail(b))

\* A uint256 field that accepts every decimal string.
ParseUint256Signed(v) == TRUE

\* apitypes parseInteger for a uint256 field given as a string
\* (math.ParseBig256, then the sign and BitLen checks): the empty string is
\* 0; after "0x" or "0X" the rest is read in base 16, and otherwise the
\* string in base 10, by big.Int.SetString (an optional sign, then at least
\* one digit, and nothing else); the number must not be negative and must be
\* below 2^256, which 64 hexadecimal digits at most are.
ParseUint256(v) ==
    \/ v = <<>>
    \/ IF Len(v) >= 2 /\ v[1] = "0" /\ v[2] \in {"x", "X"}
       THEN LET sign == Run(First(Drop(v, 2)), {"+", "-"})
                h == Drop(v, 2 + Len(sign))
                m == Drop(h, Len(Run(h, {"0"})))
            IN  /\ h # <<>>
                /\ \A i \in 1..Len(h) : h[i] \in HexDigits
                /\ sign = << "-" >> => m = <<>>
                /\ Len(m) <= 64
       ELSE LET b == BigIntSetString(v)
            IN  /\ b.ok
                /\ ~b.neg
                /\ \/ Len(b.digits) < Len(TwoTo256)
                   \/ Len(b.digits) = Len(TwoTo256) /\ DigitsLess(b.digits, TwoTo256)

\* Sample amount strings.
S_empty == <<>>
S_200000 == <<"2", "0", "0", "0", "0", "0">>
S_100000 == <<"1", "0", "0", "0", "0", "0">>
S_neg == <<"-", "5">>
S_frac == <<"1", ".", "5">>
S_plus == <<"+", "1", "0", "0", "0", "0", "0">>
S_hex == <<"0", "x", "1", "0">>
S_word == <<"a", "b", "c">>
S_huge == TwoTo256

\* ---------------------------------------------------- JSON and Go values

\* A JSON scalar as encoding/json decodes it into `any`: a string (s, a tuple
\* of characters) or a number (n).
JStr(s) == [t |-> "str", s |-> s, n |-> 0]
JNum(n) == [t |-> "num", s |-> <<>>, n |-> n]

\* A JSON array of n elements.
JArr(n) == [t |-> "arr", s |-> <<>>, n |-> n]

\* A JSON object of n members.
JObj(n) == [t |-> "obj", s |-> <<>>, n |-> n]

\* Go values that encoding/json cannot encode: a channel, a function, a
\* float64 that is an infinity or no number.
GoChan == [t |-> "chan", s |-> <<>>, n |-> 0]
GoFunc == [t |-> "func", s |-> <<>>, n |-> 0]
GoInf == [t |-> "inf", s |-> <<>>, n |-> 0]

\* A Go map[string]any: nil, or a function from its keys to its values.
NoKeys == [k \in {} |-> 0]
NilMap == [isNil |-> TRUE, kv |-> NoKeys]
MakeMap(kv) == [isNil |-> FALSE, kv |-> kv]

\* m[k].(string): the value and whether the key holds a string.
MapString(m, k) ==
    IF ~m.isNil /\ k \in DOMAIN m.kv /\ m.kv[k].t = "str"
    THEN [ok |-> TRUE, s |-> m.kv[k].s]
    ELSE [ok |-> FALSE, s |-> <<>>]

\* The field of a JSON object, or the zero value when the key is absent.
Field(doc, k, zero) == IF k \in DOMAIN doc THEN doc[k] ELSE zero

\* A text (byte string): JSON for the object `doc`, or not JSON at all.
NotJSON == [isJSON |-> FALSE, doc |-> NoKeys]
JSONText(doc) == [isJSON |-> TRUE, doc |-> doc]

\* A header or body string: absent/empty, not base64 ("garbage"), the raw
\* text itself ("raw"), or the standard base64 encoding of a text ("b64").
AbsentString == [enc |-> "absent", text |-> NotJSON]
GarbageString == [enc |-> "garbage", text |-> NotJSON]
RawString(text) == [enc |-> "raw", text |-> text]

\* base64.StdEncoding.EncodeToString
Base64Encode(text) == [enc |-> "b64", text |-> text]

\* base64.StdEncoding.DecodeString: an encoded string decodes to its text and
\* the empty string to no bytes at all (which are not JSON); raw JSON text
\* starts with "{", which is outside the base64 alphabet, and fails.
Base64Decode(str) ==
    IF str.enc = "b64" THEN [ok |-> TRUE, text |-> str.text]
    ELSE IF str.enc = "absent" THEN [ok |-> TRUE, text |-> NotJSON]
    ELSE [ok |-> FALSE, text |-> NotJSON]

\* ------------------------------------------------------------ the structs

ZeroResource == [URL |-> "", Description |-> "", MimeType |-> ""]

ZeroOption ==
    [Scheme |-> "", Network |-> "", Amount |-> <<>>, Asset |-> "",
     PayTo |-> "", MaxTimeoutSeconds |-> 0, Extra |-> NilMap]

ZeroRequirement ==
    [X402Version |-> 0, Accepts |-> <<>>, Resource |-> ZeroResource,
     Extensions |-> NilMap]

\* json.Unmarshal into map[string]any (a field tagged omitempty): an absent
\* key leaves the map nil.
UnmarshalMap(doc, k) == IF k \in DOMAIN doc THEN MakeMap(doc[k]) ELSE NilMap

\* json.Unmarshal into PaymentOption; a JSON number where the struct wants
\* the string "amount" is a type error.
UnmarshalOptionOK(o) == ("amount" \in DOMAIN o) => o["amount"].t = "str"

UnmarshalOption(o) ==
    [Scheme |-> Field(o, "scheme", ""),
     Network |-> Field(o, "network", ""),
     Amount |-> IF "amount" \in DOMAIN o /\ o["amount"].t = "str"
                THEN o["amount"].s ELSE <<>>,
     Asset |-> Field(o, "asset", ""),
     PayTo |-> Field(o, "payTo", ""),
     MaxTimeoutSeconds |-> Field(o, "maxTimeoutSeconds", 0),
     Extra |-> UnmarshalMap(o, "extra")]

UnmarshalResource(doc) ==
    IF "resource" \in DOMAIN doc
    THEN [URL |-> Field(doc["resource"], "url", ""),
          Description |-> Field(doc["resource"], "description", ""),
          MimeType |-> Field(doc["resource"], "mimeType", "")]
    ELSE ZeroResource

\* json.Unmarshal into PaymentRequirement: absent keys keep zero values,
\* unknown keys are ignored.
UnmarshalRequirementOK(text) ==
    /\ text.isJSON
    /\ \A i \in 1..Len(Field(text.doc, "accepts", <<>>)) :
          UnmarshalOptionOK(text.doc["accepts"][i])

UnmarshalRequirement(doc) ==
    [X402Version |-> Field(doc, "x402Version", 0),
     Accepts |-> [i \in 1..Len(Field(doc, "accepts", <<>>)) |->
                     UnmarshalOption(doc["accepts"][i])],
     Resource |-> UnmarshalResource(doc),
     Extensions |-> UnmarshalMap(doc, "extensions")]

\* ParsePaymentRequired(headerValue): base64-decode, then JSON-decode.
ParsePaymentRequired(headerValue) ==
    LET decoded == Base64Decode(headerValue) IN
    IF ~decoded.ok THEN [ok |-> FALSE, req |-> ZeroRequirement]
    ELSE IF ~UnmarshalRequirementOK(decoded.text)
         THEN [ok |-> FALSE, req |-> ZeroRequirement]
         ELSE [ok |-> TRUE, req |-> UnmarshalRequirement(decoded.text.doc)]

\* ExtractPaymentDetails without the check that an option was offered: an
\* empty list yields the zero-value option.
ExtractPaymentDetailsUnchecked(req) ==
    LET first == IF Len(req.Accepts) = 0 THEN ZeroOption ELSE req.Accepts[1]
        legacy == MapString(first.Extra, "maxAmountRequired")
        option == IF first.Amount = <<>> /\ legacy.ok
                  THEN [first EXCEPT !.Amount = legacy.s]
                  ELSE first
    IN  IF Len(req.Accepts) > 0 /\ option.Amount = <<>>
        THEN [ok |-> FALSE, option |-> ZeroOption]
        ELSE [ok |-> TRUE, option |-> option]

\* The amount an option resolves to, empty when it has none.
AmountOf(o) ==
    IF o.Amount = <<>> /\ MapString(o.Extra, "maxAmountRequired").ok
    THEN MapString(o.Extra, "maxAmountRequired").s
    ELSE o.Amount

\* ExtractPaymentDetails that prefers the legacy amount to the amount field.
ExtractPaymentDetailsLegacyFirst(req) ==
    IF Len(req.Accepts) = 0 THEN [ok |-> FALSE, option |-> ZeroOption]
    ELSE LET first == req.Accepts[1]
             legacy == MapString(first.Extra, "maxAmountRequired")
             option == IF legacy.ok THEN [first EXCEPT !.Amount = legacy.s] ELSE first
         IN IF option.Amount = <<>>
            THEN [ok |-> FALSE, option |-> ZeroOption]
            ELSE [ok |-> TRUE, option |-> option]

\* ExtractPaymentDetails that falls through to the first option that has an
\* amount.
ExtractPaymentDetailsFirstPayable(req) ==
    LET payable == {i \in 1..Len(req.Accepts) : AmountOf(req.Accepts[i]) # <<>>}
        first == req.Accepts[CHOOSE i \in payable : \A j \in payable : i <= j]
    IN  IF payable = {} THEN [ok |-> FALSE, option |-> ZeroOption]
        ELSE [ok |-> TRUE, option |-> [first EXCEPT !.Amount = AmountOf(first)]]

\* ExtractPaymentDetails(req): the first option, its amount resolved from
\* "amount" or, when that is empty, from extra["maxAmountRequired"].
ExtractPaymentDetails(req) ==
    IF Len(req.Accepts) = 0 THEN [ok |-> FALSE, option |-> ZeroOption]
    ELSE LET first == req.Accepts[1]
             legacy == MapString(first.Extra, "maxAmountRequired")
             option == IF first.Amount = <<>> /\ legacy.ok
                       THEN [first EXCEPT !.Amount = legacy.s]
                       ELSE first
         IN IF option.Amount = <<>>
            THEN [ok |-> FALSE, option |-> ZeroOption]
            ELSE [ok |-> TRUE, option |-> option]

\* --------------------------------------------------- keys and addresses

\* Sample secp256k1 keys, one per client, and the addresses they derive
\* (client_test.go:12-13 for the first).
KeyA == "key-A"
KeyB == "key-B"
AddressA == "0xf39Fd6e51aad88F6F4ce6aB8827279cffFb92266"
AddressB == "0x70997970C51812dc3A010C7d01b50e0d17dc79C8"

\* Sample payee addresses: a hex address with and without its "0x", and a
\* string that is no address.
PayeeHex == "0x1234567890123456789012345678901234567890"
PayeeBare == "1234567890123456789012345678901234567890"
PayeeBad == "not-an-address"

\* A token on another chain.
OtherAsset == "0xA0b86991c6218b36c1d19D4a2e9Eb0cE3606eB48"

\* Sample API URLs (the last has a space in its host) and the paths the
\* clients append.
ProxyURL == "https://proxy.example"
AltURL == "https://alt.example/api"
BadHostURL == "http://a b"
ChatEndpoint == "/v1/chat/completions"
ImageEndpoint == "/v1/images/generations"
ModelsEndpoint == "/v1/models"
ImageModelsEndpoint == "/v1/images/models"

\* The characters of the URLs, paths and addresses the model handles (TLC
\* cannot take a string apart); the empty string has none.
Chars(s) ==
    CASE s = "" -> <<>>
      [] s = DefaultAPIURL ->
        << "h", "t", "t", "p", "s", ":", "/", "/", "b", "l", "o", "c", "k", "r", "u", "n",
           ".", "a", "i", "/", "a", "p", "i" >>
      [] s = ProxyURL ->
        << "h", "t", "t", "p", "s", ":", "/", "/", "p", "r", "o", "x", "y", ".", "e", "x",
           "a", "m", "p", "l", "e" >>
      [] s = AltURL ->
        << "h", "t", "t", "p", "s", ":", "/", "/", "a", "l", "t", ".", "e", "x", "a", "m",
           "p", "l", "e", "/", "a", "p", "i" >>
      [] s = BadHostURL ->
        << "h", "t", "t", "p", ":", "/", "/", "a", " ", "b" >>
      [] s = ChatEndpoint ->
        << "/", "v", "1", "/", "c", "h", "a", "t", "/", "c", "o", "m", "p", "l", "e", "t",
           "i", "o", "n", "s" >>
      [] s = ImageEndpoint ->
        << "/", "v", "1", "/", "i", "m", "a", "g", "e", "s", "/", "g", "e", "n", "e", "r",
           "a", "t", "i", "o", "n", "s" >>
      [] s = ModelsEndpoint ->
        << "/", "v", "1", "/", "m", "o", "d", "e", "l", "s" >>
      [] s = ImageModelsEndpoint ->
        << "/", "v", "1", "/", "i", "m", "a", "g", "e", "s", "/", "m", "o", "d", "e", "l",
           "s" >>
      [] s = USDCBase ->
        << "0", "x", "8", "3", "3", "5", "8", "9", "f", "C", "D", "6", "e", "D", "b", "6",
           "E", "0", "8", "f", "4", "c", "7", "C", "3", "2", "D", "4", "f", "7", "1", "b",
           "5", "4", "b", "d", "A", "0", "2", "9", "1", "3" >>
      [] s = OtherAsset ->
        << "0", "x", "A", "0", "b", "8", "6", "9", "9", "1", "c", "6", "2", "1", "8", "b",
           "3", "6", "c", "1", "d", "1", "9", "D", "4", "a", "2", "e", "9", "E", "b", "0",
           "c", "E", "3", "6", "0", "6", "e", "B", "4", "8" >>
      [] s = AddressA ->
        << "0", "x", "f", "3", "9", "F", "d", "6", "e", "5", "1", "a", "a", "d", "8", "8",
           "F", "6", "F", "4", "c", "e", "6", "a", "B", "8", "8", "2", "7", "2", "7", "9",
           "c", "f", "f", "F", "b", "9", "2", "2", "6", "6" >>
      [] s = AddressB ->
        << "0", "x", "7", "0", "9", "9", "7", "9", "7", "0", "C", "5", "1", "8", "1", "2",
           "d", "c", "3", "A", "0", "1", "0", "C", "7", "d", "0", "1", "b", "5", "0", "e",
           "0", "d", "1", "7", "d", "c", "7", "9", "C", "8" >>
      [] s = PayeeHex ->
        << "0", "x", "1", "2", "3", "4", "5", "6", "7", "8", "9", "0", "1", "2", "3", "4",
           "5", "6", "7", "8", "9", "0", "1", "2", "3", "4", "5", "6", "7", "8", "9", "0",
           "1", "2", "3", "4", "5", "6", "7", "8", "9", "0" >>
      [] s = PayeeBare ->
        << "1", "2", "3", "4", "5", "6", "7", "8", "9", "0", "1", "2", "3", "4", "5", "6",
           "7", "8", "9", "0", "1", "2", "3", "4", "5", "6", "7", "8", "9", "0", "1", "2",
           "3", "4", "5", "6", "7", "8", "9", "0" >>
      [] s = PayeeBad ->
        << "n", "o", "t", "-", "a", "n", "-", "a", "d", "d", "r", "e", "s", "s" >>

\* The sender address taken from the payee instead of the key.
PubkeyToAddressOfPayee(key) == PayeeHex

\* crypto.PubkeyToAddress(privateKey.PublicKey).Hex()
PubkeyToAddress(key) == IF key = KeyA THEN AddressA ELSE AddressB

\* common.IsHexAddress(a): after an optional "0x" or "0X", 40 hex digits.
IsHexAddress(a) ==
    LET s == Chars(a)
        body == IF Len(s) >= 2 /\ s[1] = "0" /\ s[2] \in {"x", "X"}
                THEN SubSeq(s, 3, Len(s)) ELSE s
    IN  Len(body) = 40 /\ \A i \in 1..Len(body) : body[i] \in HexDigits

\* url.Parse as http.NewRequest applies it to base \o path: the URL holds no
\* ASCII control character and the host (what follows "://" up to the next
\* "/") holds no space.
HostOf(u) ==
    LET colons == {i \in 1..(Len(u) - 2) :
                      u[i] = ":" /\ u[i + 1] = "/" /\ u[i + 2] = "/"}
        from == (CHOOSE i \in colons : \A j \in colons : i <= j) + 3
        slashes == {i \in from..Len(u) : u[i] = "/"}
        to == IF slashes = {} THEN Len(u)
              ELSE (CHOOSE i \in slashes : \A j \in slashes : i <= j) - 1
    IN  IF colons = {} THEN <<>> ELSE SubSeq(u, from, to)

URLParses(base, path) ==
    LET u == Chars(base) \o Chars(path)
    IN  /\ \A i \in 1..Len(u) : u[i] \notin {"\t", "\n", "\r"}
        /\ \A i \in 1..Len(HostOf(u)) : HostOf(u)[i] # " "

\* ------------------------------------------------------ the constructors

\* A key as text: whether it starts with "0x", and what follows.
KeyText(prefix, rest) == [prefix |-> prefix, rest |-> rest]
NoText == KeyText("", "")
IsEmptyText(k) == k.prefix = "" /\ k.rest = ""

\* 64 hex digits: the two sample keys, and the scalar zero.
HexA == "ac0974bec39a17e36ba4a6b4d238ff944bacb478cbed5efcae784d7bf4f2ff80"
HexB == "59c6995e998f97a5a0044966f0945389dc9e86dae88c7a8412f4603b6b78690d"
HexZero == "0000000000000000000000000000000000000000000000000000000000000000"

\* The key of a client that was not built.
NoKey == "no-key"

\* The key text with its prefix left in place.
TrimPrefixNone(k) == k.prefix \o k.rest

\* strings.TrimPrefix(key, "0x")
TrimPrefix0x(k) == k.rest

\* HexToECDSA that accepts every string.
HexToECDSAUnchecked(s) == [ok |-> TRUE, key |-> IF s = HexB THEN KeyB ELSE KeyA]

\* crypto.HexToECDSA(key): 64 hex digits that encode a scalar of the curve's
\* group, zero excluded.
HexToECDSA(s) ==
    IF s = HexA THEN [ok |-> TRUE, key |-> KeyA]
    ELSE IF s = HexB THEN [ok |-> TRUE, key |-> KeyB]
    ELSE [ok |-> FALSE, key |-> NoKey]

\* A URL as text: the URL without one trailing "/", and whether it has one.
URLText(u, slash) == [url |-> u, slash |-> slash]
NoURL == URLText("", FALSE)

\* strings.TrimSuffix(url, "/")
TrimSuffixSlash(u) == u.url

\* The options applied in order: WithAPIURL(url) / WithImageAPIURL(url) set
\* the API URL; opts is the sequence of their arguments.
RECURSIVE ApplyOptions(_, _)
ApplyOptions(u, opts) ==
    IF opts = <<>> THEN u
    ELSE ApplyOptions(TrimSuffixSlash(Head(opts)), Tail(opts))

\* The part the two constructors share: the key is parsed, the address
\* derived, the options applied and BLOCKRUN_API_URL honoured when the API
\* URL is still the default.
BuildClient(key, opts, environ) ==
    LET parsed == HexToECDSA(TrimPrefix0x(key))
        withOpts == ApplyOptions(DefaultAPIURL, opts)
        envURL == environ.BLOCKRUN_API_URL
    IN  IF IsEmptyText(key) \/ ~parsed.ok
        THEN [ok |-> FALSE, field |-> "privateKey", key |-> NoKey,
              address |-> "", apiURL |-> ""]
        ELSE [ok |-> TRUE, field |-> "", key |-> parsed.key,
              address |-> PubkeyToAddress(parsed.key),
              apiURL |-> IF envURL # NoURL /\ withOpts = DefaultAPIURL
                         THEN TrimSuffixSlash(envURL) ELSE withOpts]

\* NewLLMClient(privateKey, opts...): the key is the parameter or, when that
\* is empty, BASE_CHAIN_WALLET_KEY.
NewLLMClient(privKey, opts, environ) ==
    BuildClient(IF IsEmptyText(privKey) THEN environ.BASE_CHAIN_WALLET_KEY ELSE privKey,
                opts, environ)

\* NewImageClient(privateKey, opts...): the key is the parameter, else
\* BLOCKRUN_WALLET_KEY, else BASE_CHAIN_WALLET_KEY.
NewImageClient(privKey, opts, environ) ==
    BuildClient(IF ~IsEmptyText(privKey) THEN privKey
                ELSE IF ~IsEmptyText(environ.BLOCKRUN_WALLET_KEY)
                     THEN environ.BLOCKRUN_WALLET_KEY
                     ELSE environ.BASE_CHAIN_WALLET_KEY,
                opts, environ)

\* GetAddressFromKey(privateKey): the address of a key given as text.
GetAddressFromKey(privKey) ==
    LET parsed == HexToECDSA(TrimPrefix0x(privKey))
    IN  IF ~parsed.ok THEN [ok |-> FALSE, address |-> ""]
        ELSE [ok |-> TRUE, address |-> PubkeyToAddress(parsed.key)]

\* ------------------------------------------------------------ the wallet

\* The text of a file or of an argument: a key text, possibly surrounded by
\* white space (a trailing newline); key texts themselves hold none.
Padded(key, space) == [exists |-> TRUE, key |-> key, space |-> space]

\* A file that cannot be read (os.ReadFile returns an error).
NoFile == [exists |-> FALSE, key |-> NoText, space |-> FALSE]

\* WalletDir with neither file.
NoFiles == [session |-> NoFile, legacy |-> NoFile]

\* strings.TrimSpace(string(data))
TrimSpace(t) == t.key

\* One of LoadWallet's two blocks: the trimmed content of a readable file.
ReadKey(file) == IF file.exists THEN TrimSpace(file) ELSE NoText

\* LoadWallet that prefers the legacy file.
LoadWalletLegacyFirst(fs) ==
    IF ~IsEmptyText(ReadKey(fs.legacy)) THEN ReadKey(fs.legacy)
    ELSE ReadKey(fs.session)

\* LoadWallet(): the key in .session, else the key in wallet.key, else "";
\* the error is always nil.
LoadWallet(fs) ==
    IF ~IsEmptyText(ReadKey(fs.session)) THEN ReadKey(fs.session)
    ELSE IF ~IsEmptyText(ReadKey(fs.legacy)) THEN ReadKey(fs.legacy)
    ELSE NoText

\* SaveWallet(privateKey): the text becomes the content of .session, unless
\* the directory or the file cannot be written.
SaveWallet(text, fs, writable) ==
    IF ~writable THEN [ok |-> FALSE, fs |-> fs]
    ELSE [ok |-> TRUE, fs |-> [fs EXCEPT !.session = Padded(text.key, text.space)]]

\* CreateWallet(): a generated key as "0x" and its 64 hex digits, with its
\* address; gen.hex are the digits crypto.GenerateKey draws.
CreateWallet(gen) ==
    IF ~gen.randOK THEN [ok |-> FALSE, address |-> "", privateKey |-> NoText]
    ELSE [ok |-> TRUE, address |-> PubkeyToAddress(HexToECDSA(gen.hex).key),
          privateKey |-> KeyText("0x", gen.hex)]

\* The environment key, BASE_CHAIN_WALLET_KEY first.
EnvKeyBaseFirst(e) ==
    IF ~IsEmptyText(e.BASE_CHAIN_WALLET_KEY) THEN e.BASE_CHAIN_WALLET_KEY
    ELSE e.BLOCKRUN_WALLET_KEY

\* envKey: BLOCKRUN_WALLET_KEY, or BASE_CHAIN_WALLET_KEY when that is empty.
EnvKey(e) ==
    IF ~IsEmptyText(e.BLOCKRUN_WALLET_KEY) THEN e.BLOCKRUN_WALLET_KEY
    ELSE e.BASE_CHAIN_WALLET_KEY

\* What GetOrCreateWallet returns: (*WalletInfo, nil) or (nil, err).
NoWallet == [PrivateKey |-> NoText, Address |-> "", IsNew |-> FALSE]
WalletInfo(key, address, isNew) ==
    [PrivateKey |-> key, Address |-> address, IsNew |-> isNew]

\* The wallet of an existing key.
WalletOfKey(key, fs) ==
    IF GetAddressFromKey(key).ok
    THEN [ok |-> TRUE, wallet |-> WalletInfo(key, GetAddressFromKey(key).address, FALSE),
          fs |-> fs, created |-> FALSE]
    ELSE [ok |-> FALSE, wallet |-> NoWallet, fs |-> fs, created |-> FALSE]

\* GetOrCreateWallet(): the environment key, else the key LoadWallet finds,
\* else a new wallet that is saved.
GetOrCreateWallet(e, fs, gen) ==
    IF ~IsEmptyText(EnvKey(e)) THEN WalletOfKey(EnvKey(e), fs)
    ELSE IF ~IsEmptyText(LoadWallet(fs)) THEN WalletOfKey(LoadWallet(fs), fs)
    ELSE LET new == CreateWallet(gen)
             saved == SaveWallet(Padded(new.privateKey, FALSE), fs, gen.writable)
         IN  IF ~new.ok
             THEN [ok |-> FALSE, wallet |-> NoWallet, fs |-> fs, created |-> FALSE]
             ELSE IF ~saved.ok
             THEN [ok |-> FALSE, wallet |-> NoWallet, fs |-> saved.fs, created |-> TRUE]
             ELSE [ok |-> TRUE, wallet |-> WalletInfo(new.privateKey, new.address, TRUE),
                   fs |-> saved.fs, created |-> TRUE]

\* ------------------------------------------------- CreatePaymentPayload

\* The token name and version of the signed domain: extra["name"].(string),
\* extra["version"].(string), or the defaults.
TokenName(extra) ==
    IF MapString(extra, "name").ok THEN MapString(extra, "name").s
    ELSE <<"USD Coin">>

TokenVersion(extra) ==
    IF MapString(extra, "version").ok THEN MapString(extra, "version").s
    ELSE <<"2">>

\* validAfter without the back-dating.
ValidAfterNoSkew(now) == now

\* validAfter / validBefore from one reading of the clock.
ValidAfter(now) == now - ClockSkew
ValidBefore(now, maxTimeoutSeconds) == now + maxTimeoutSeconds

\* A domain for the token on Ethereum mainnet instead of Base.
TypedDomainMainnet(extra) ==
    [name |-> TokenName(extra), version |-> TokenVersion(extra),
     chainId |-> 1, verifyingContract |-> OtherAsset]

\* The EIP-712 typed data: domain and TransferWithAuthorization message.
TypedDomain(extra) ==
    [name |-> TokenName(extra), version |-> TokenVersion(extra),
     chainId |-> BaseChainID, verifyingContract |-> USDCBase]

TypedMessage(key, recipient, value, now, maxTimeoutSeconds, nonce) ==
    [from |-> PubkeyToAddress(key), to |-> recipient, value |-> value,
     validAfter |-> FormatInt(ValidAfter(now)),
     validBefore |-> FormatInt(ValidBefore(now, maxTimeoutSeconds)),
     nonce |-> nonce]

\* typedData.HashStruct("EIP712Domain", Domain.Map()): Map() leaves an empty
\* name or version out, and a string field without a value cannot be encoded.
HashDomainOK(domain) ==
    /\ domain.name # <<>>
    /\ domain.version # <<>>
    /\ IsHexAddress(domain.verifyingContract)

\* typedData.HashStruct(PrimaryType, Message): every uint256 field must be a
\* decimal string for an integer in [0, 2^256) and every address field a hex
\* address.
HashMessageOK(msg) ==
    /\ IsHexAddress(msg.from)
    /\ IsHexAddress(msg.to)
    /\ ParseUint256(msg.value)
    /\ ParseUint256(msg.validAfter)
    /\ ParseUint256(msg.validBefore)

\* The recovery byte left as the signing primitive returned it.
FixVNone(v) == v

\* The recovery byte: go-ethereum returns 0/1, Ethereum wants 27/28.
FixV(v) == IF v < RecoveryOffset THEN v + RecoveryOffset ELSE v

\* A signature that carries the key it was made with.
SignLeaky(domain, msg, key, recid) ==
    [domain |-> domain, message |-> msg, signer |-> key, v |-> FixV(recid)]

\* crypto.Sign(hash, privateKey) over the hash of (domain, message), with the
\* recovery byte fixed: what was signed, the address the signature recovers
\* to, and the recovery byte.
Sign(domain, msg, key, recid) ==
    [domain |-> domain, message |-> msg, signer |-> PubkeyToAddress(key),
     v |-> FixV(recid)]

\* A map field tagged `json:"-"`: always left out.
OmitAlways(k, m) == NoKeys

\* A map field tagged `json:"k,omitempty"`: left out when nil or empty.
OmitEmpty(k, m) ==
    IF m.isNil \/ DOMAIN m.kv = {} THEN NoKeys ELSE (k :> m.kv)

\* json.Marshal returns no error for the map m: every value in it is one
\* encoding/json has an encoding for.
MarshalOK(m) == m.isNil \/ \A k \in DOMAIN m.kv : m.kv[k].t \in {"str", "num", "arr", "obj"}

\* json.Marshal(payload): "extensions" and "extra" are omitempty.
MarshalPayload(p) ==
    [x402Version |-> p.X402Version,
     resource |-> [url |-> p.Resource.URL,
                   description |-> p.Resource.Description,
                   mimeType |-> p.Resource.MimeType],
     accepted |-> [scheme |-> p.Accepted.Scheme,
                   network |-> p.Accepted.Network,
                   amount |-> JStr(p.Accepted.Amount),
                   asset |-> p.Accepted.Asset,
                   payTo |-> p.Accepted.PayTo,
                   maxTimeoutSeconds |-> p.Accepted.MaxTimeoutSeconds]
                  @@ OmitEmpty("extra", p.Accepted.Extra),
     payload |-> [signature |-> p.Payload.Signature,
                  authorization |->
                      [from |-> p.Payload.Authorization.From,
                       to |-> p.Payload.Authorization.To,
                       value |-> JStr(p.Payload.Authorization.Value),
                       validAfter |-> JStr(p.Payload.Authorization.ValidAfter),
                       validBefore |-> JStr(p.Payload.Authorization.ValidBefore),
                       nonce |-> p.Payload.Authorization.Nonce]]]
    @@ OmitEmpty("extensions", p.Extensions)

\* json.Marshal of a PaymentOption and of a PaymentRequirement: every field
\* under its tag, "extra" and "extensions" omitted when the map is empty.
MarshalOption(o) ==
    [scheme |-> o.Scheme, network |-> o.Network, amount |-> JStr(o.Amount),
     asset |-> o.Asset, payTo |-> o.PayTo,
     maxTimeoutSeconds |-> o.MaxTimeoutSeconds]
    @@ OmitEmpty("extra", o.Extra)

MarshalRequirement(req) ==
    [x402Version |-> req.X402Version,
     accepts |-> [i \in 1..Len(req.Accepts) |-> MarshalOption(req.Accepts[i])],
     resource |-> [url |-> req.Resource.URL,
                   description |-> req.Resource.Description,
                   mimeType |-> req.Resource.MimeType]]
    @@ OmitEmpty("extensions", req.Extensions)

NoPayload == AbsentString

\* A nonce that was drawn once and is handed out again on every call.
createNonceCached(env) ==
    [ok |-> env.nonceOK, nonce |-> [prefix |-> "0x", bytes |-> NonceBytes, draw |-> 1]]

\* createNonce(): NonceBytes bytes read from crypto/rand (env.nonce names the
\* value drawn), in hex after "0x"; an error when the read fails.
createNonce(env) ==
    [ok |-> env.nonceOK,
     nonce |-> [prefix |-> "0x", bytes |-> NonceBytes, draw |-> env.nonce]]

\* What the environment contributes to one CreatePaymentPayload call: the
\* clock, crypto/rand (ok or not, and the value drawn) and the signing
\* primitive (ok or not, and its recovery id).
\*   env = [now, nonceOK, nonce, signOK, recid]
\* The result is [ok, err, header]; header is the base64 string returned.
CreatePaymentPayload(privateKey, recipient, amount, network, resourceURL, resourceDescription, maxTimeoutSeconds, extra, extensions, env) ==
    LET nonce == createNonce(env)
        amountBig == BigIntSetString(amount)
        msg == TypedMessage(privateKey, recipient, BigIntString(amountBig), env.now,
                            maxTimeoutSeconds, nonce.nonce)
        domain == TypedDomain(extra)
        signature == Sign(domain, msg, privateKey, env.recid)
        payload ==
            [X402Version |-> PayloadVersion,
             Resource |-> [URL |-> resourceURL,
                           Description |-> resourceDescription,
                           MimeType |-> "application/json"],
             Accepted |-> [Scheme |-> "exact", Network |-> network,
                           Amount |-> amount, Asset |-> USDCBase,
                           PayTo |-> recipient,
                           MaxTimeoutSeconds |-> maxTimeoutSeconds,
                           Extra |-> MakeMap([name |-> JStr(TokenName(extra)),
                                              version |-> JStr(TokenVersion(extra))])],
             Payload |-> [Signature |-> signature,
                          Authorization |->
                              [From |-> PubkeyToAddress(privateKey),
                               To |-> recipient, Value |-> amount,
                               ValidAfter |-> FormatInt(ValidAfter(env.now)),
                               ValidBefore |->
                                   FormatInt(ValidBefore(env.now, maxTimeoutSeconds)),
                               Nonce |-> nonce.nonce]],
             Extensions |-> extensions]
        fail(why) == [ok |-> FALSE, err |-> why, header |-> NoPayload]
    IN  IF ~nonce.ok THEN fail("failed to generate nonce")
        ELSE IF ~amountBig.ok THEN fail("invalid amount")
        ELSE IF ~HashDomainOK(domain) THEN fail("failed to hash domain")
        ELSE IF ~HashMessageOK(msg) THEN fail("failed to hash message")
        ELSE IF ~env.signOK THEN fail("failed to sign")
        ELSE IF ~MarshalOK(payload.Accepted.Extra) \/ ~MarshalOK(payload.Extensions)
        THEN fail("failed to marshal payload")
        ELSE [ok |-> TRUE, err |-> "",
              header |-> Base64Encode(JSONText(MarshalPayload(payload)))]

\* ------------------------------------------------------------- float64

\* Natural numbers of any size: tuples of digits in base 2^20, the most
\* significant first and not 0; the empty tuple is 0.  A digit is two halves
\* of ten bits where it is divided.
Base == 2^20

Half == 2^10

Zeros(n) == [i \in 1..n |-> 0]

\* The tuple without its leading zeros.
TrimNat(digits) ==
    With(digits, LAMBDA d :
        IF \A i \in 1..Len(d) : d[i] = 0 THEN <<>>
        ELSE SubSeq(d, CHOOSE i \in 1..Len(d) : d[i] # 0 /\ \A j \in 1..(i - 1) : d[j] = 0,
                    Len(d)))

RECURSIVE NatOfInt(_)
NatOfInt(v) == IF v = 0 THEN <<>> ELSE Append(NatOfInt(v \div Base), v % Base)

RECURSIVE BitLen(_)
BitLen(v) == IF v = 0 THEN 0 ELSE 1 + BitLen(v \div 2)

\* The bits of one digit, and of a number.
DigitBits == BitLen(Base - 1)

BitLength(n) == IF n = <<>> THEN 0 ELSE DigitBits * (Len(n) - 1) + BitLen(n[1])

\* The arithmetic below works on the digits i..j of its operand, the right
\* half first where a carry moves left and the left half first where a
\* remainder moves right, so that a long number is no deep recursion.

\* n * m + carry for a factor m of at most 2^10 and a carry below m: the
\* carry out, then the low digits.
RECURSIVE MulAdd(_, _, _, _, _)
MulAdd(n, m, i, j, carry) ==
    IF i > j THEN << carry >>
    ELSE IF i = j THEN << (n[i] * m + carry) \div Base, (n[i] * m + carry) % Base >>
    ELSE With((i + j) \div 2, LAMBDA mid :
         With(MulAdd(n, m, mid + 1, j, carry), LAMBDA right :
              MulAdd(n, m, i, mid, right[1]) \o Tail(right)))

\* The digits of n \div d for a divisor of at most 2^20, followed by the
\* remainder (r is the remainder so far).
RECURSIVE DivDigits(_, _, _, _, _)
DivDigits(n, d, i, j, r) ==
    IF i > j THEN << r >>
    ELSE IF i = j
    THEN With(Half * r + (n[i] \div Half), LAMBDA high :
         With(Half * (high % d) + (n[i] % Half), LAMBDA low :
              << Half * (high \div d) + (low \div d), low % d >>))
    ELSE With((i + j) \div 2, LAMBDA mid :
         With(DivDigits(n, d, i, mid, r), LAMBDA left :
              SubSeq(left, 1, Len(left) - 1) \o DivDigits(n, d, mid + 1, j, left[Len(left)])))

\* The carry into the place of digit i, where sums[j] is the sum of the two
\* digits at j: a place after i overflows and every place between them is
\* full.  The borrow is the same for differences: a place after i is short
\* and every place between them is empty.
Carry(sums, i) ==
    IF \E j \in (i + 1)..Len(sums) :
           sums[j] >= Base /\ \A k \in (i + 1)..(j - 1) : sums[k] = Base - 1
    THEN 1 ELSE 0

Borrow(diffs, i) ==
    IF \E j \in (i + 1)..Len(diffs) :
           diffs[j] < 0 /\ \A k \in (i + 1)..(j - 1) : diffs[k] = 0
    THEN 1 ELSE 0

\* The digit of n at place i, where the last digit is at place len.
DigitAt(n, len, i) == IF i > len - Len(n) THEN n[i - (len - Len(n))] ELSE 0

\* a + b, a - b for a >= b, a < b, n * m + carry, and n \div d with n % d.
AddNat(a, b) ==
    With(IF Len(a) > Len(b) THEN Len(a) ELSE Len(b), LAMBDA len :
    With([i \in 1..len |-> DigitAt(a, len, i) + DigitAt(b, len, i)], LAMBDA sums :
         TrimNat([i \in 1..(len + 1) |->
                     IF i = 1 THEN Carry(sums, 0)
                     ELSE (sums[i - 1] + Carry(sums, i - 1)) % Base])))

SubNat(a, b) ==
    With([i \in 1..Len(a) |-> a[i] - DigitAt(b, Len(a), i)], LAMBDA diffs :
         TrimNat([i \in 1..Len(a) |-> (diffs[i] - Borrow(diffs, i) + Base) % Base]))

LessNat(a, b) ==
    IF Len(a) # Len(b) THEN Len(a) < Len(b)
    ELSE \E i \in 1..Len(a) : a[i] < b[i] /\ \A j \in 1..(i - 1) : a[j] = b[j]

MulNat(n, m, carry) ==
    With(MulAdd(n, m, 1, Len(n), carry), LAMBDA r : NatOfInt(r[1]) \o Tail(r))

DivNat(n, d) ==
    With(DivDigits(n, d, 1, Len(n), 0), LAMBDA qr :
         [q |-> TrimNat(SubSeq(qr, 1, Len(qr) - 1)), r |-> qr[Len(qr)]])

\* nat * 2^s: every digit gives its high bits to the place before it.
ShiftLeft(nat, s) ==
    With(nat, LAMBDA n :
    With(2^(s % DigitBits), LAMBDA m :
         IF n = <<>> THEN <<>>
         ELSE TrimNat([i \in 1..(Len(n) + 1) |->
                          (IF i = 1 THEN 0 ELSE (n[i - 1] % (Base \div m)) * m)
                          + (IF i > Len(n) THEN 0 ELSE n[i] \div (Base \div m))])
              \o Zeros(s \div DigitBits)))

\* nat \div 2^s, with the first of the s bits that go (`half`) and whether
\* another of them is set (`rest`): every digit gives its low bits to the
\* place after it.
ShiftRight(nat, s) ==
    With(nat, LAMBDA n :
    With(s \div DigitBits, LAMBDA whole :
    With(2^(s % DigitBits), LAMBDA part :
    IF whole > Len(n) THEN [q |-> <<>>, half |-> FALSE, rest |-> n # <<>>]
    ELSE With(Len(n) - whole, LAMBDA len :
         With(TrimNat([i \in 1..len |->
                          (IF i = 1 THEN 0 ELSE (n[i - 1] % part) * (Base \div part))
                          + n[i] \div part]), LAMBDA q :
              IF part > 1
              THEN With(IF len = 0 THEN 0 ELSE n[len] % part, LAMBDA r :
                        [q |-> q, half |-> r >= part \div 2,
                         rest |-> \/ r % (part \div 2) # 0
                                  \/ \E i \in (len + 1)..Len(n) : n[i] # 0])
              ELSE IF whole > 0
              THEN [q |-> q, half |-> n[len + 1] >= Base \div 2,
                    rest |-> \/ n[len + 1] % (Base \div 2) # 0
                             \/ \E i \in (len + 2)..Len(n) : n[i] # 0]
              ELSE [q |-> q, half |-> FALSE, rest |-> FALSE])))))

\* The value of a digit of base 16 or less.
HexVal(c) ==
    CASE c \in Digits -> DigitVal(c)
      [] c \in {"a", "A"} -> 10 [] c \in {"b", "B"} -> 11 [] c \in {"c", "C"} -> 12
      [] c \in {"d", "D"} -> 13 [] c \in {"e", "E"} -> 14 [] c \in {"f", "F"} -> 15

\* The number that the characters i..j of s make in the given radix, for
\* three of them at most.
RECURSIVE RadixVal(_, _, _, _)
RadixVal(s, i, j, radix) ==
    IF i > j THEN 0 ELSE radix * RadixVal(s, i, j - 1, radix) + HexVal(s[j])

\* The number that the characters i..j of s make when they follow the
\* number acc; two of them are taken at a time, and three in base 10.
RECURSIVE DigitsOnto(_, _, _, _, _)
DigitsOnto(acc, s, i, j, radix) ==
    IF j - i < (IF radix > 10 THEN 2 ELSE 3)
    THEN With(radix^(j - i + 1), LAMBDA m :
         With(RadixVal(s, i, j, radix), LAMBDA low : MulNat(acc, m, low)))
    ELSE With((i + j) \div 2, LAMBDA mid :
         With(DigitsOnto(acc, s, i, mid, radix), LAMBDA left :
              DigitsOnto(left, s, mid + 1, j, radix)))

\* The number given by its decimal digits, and by its hexadecimal digits.
NatOfDigits(d) == DigitsOnto(<<>>, d, 1, Len(d), 10)

NatOfHex(h) == DigitsOnto(<<>>, h, 1, Len(h), 16)

\* n \div 10^p, and whether anything was left over on the way.
RECURSIVE DivPow10(_, _, _)
DivPow10(n, p, sticky) ==
    IF p = 0 THEN [nat |-> n, sticky |-> sticky]
    ELSE IF p <= 6
    THEN With(DivNat(n, Pow10(p)), LAMBDA qr : [nat |-> qr.q, sticky |-> sticky \/ qr.r # 0])
    ELSE With(DivPow10(n, p \div 2, sticky), LAMBDA half :
              DivPow10(half.nat, p - p \div 2, half.sticky))

\* A float64: its class, its sign, and for a finite value its mantissa (0,
\* a number of 53 bits when it is normal, of fewer when it is subnormal)
\* and its exponent: the value is mant * 2^exp.
MantBits == 53
MinExp == -1074
MaxExp == 971

Float64(class, neg, mant, exp) == [class |-> class, neg |-> neg, mant |-> mant, exp |-> exp]

Zero64(neg) == Float64("finite", neg, <<>>, 0)
Inf64(neg) == Float64("inf", neg, <<>>, 0)
NaN64 == Float64("nan", FALSE, <<>>, 0)

\* The float64 nearest to nat * 2^exp (ties to the even mantissa), an
\* infinity when that is out of range.  `sticky` says that the exact value
\* is a little above nat * 2^exp, by less than 2^exp; the last bit of nat
\* is then one of those rounded away.
RoundFloat64(neg, nat, exp, sticky) ==
    With(TrimNat(nat), LAMBDA n :
    With(IF exp + BitLength(n) - MantBits > MinExp
         THEN exp + BitLength(n) - MantBits ELSE MinExp, LAMBDA low :
    With(IF low <= exp THEN [q |-> ShiftLeft(n, exp - low), half |-> FALSE, rest |-> FALSE]
         ELSE ShiftRight(n, low - exp), LAMBDA cut :
    With(IF cut.half /\ (sticky \/ cut.rest \/ (cut.q # <<>> /\ cut.q[Len(cut.q)] % 2 = 1))
         THEN AddNat(cut.q, << 1 >>) ELSE cut.q, LAMBDA sum :
    With(IF BitLength(sum) > MantBits THEN low + 1 ELSE low, LAMBDA e :
         IF sum = <<>> THEN Zero64(neg)
         ELSE IF e > MaxExp THEN Inf64(neg)
         ELSE Float64("finite", neg, ShiftRight(sum, e - low).q, e))))))

\* |x| < |y| for two finite float64.
MagLess(x, y) ==
    IF y.mant = <<>> THEN FALSE
    ELSE IF x.mant = <<>> THEN TRUE
    ELSE IF x.exp + BitLength(x.mant) # y.exp + BitLength(y.mant)
    THEN x.exp + BitLength(x.mant) < y.exp + BitLength(y.mant)
    ELSE With(IF x.exp < y.exp THEN x.exp ELSE y.exp, LAMBDA e :
         With(ShiftLeft(x.mant, x.exp - e), LAMBDA a :
         With(ShiftLeft(y.mant, y.exp - e), LAMBDA b : LessNat(a, b))))

\* f + g in float64.
FloatAdd(f, g) ==
    With(f, LAMBDA x :
    With(g, LAMBDA y :
    IF x.class = "nan" \/ y.class = "nan" THEN NaN64
    ELSE IF x.class = "inf"
    THEN IF y.class = "inf" /\ x.neg # y.neg THEN NaN64 ELSE x
    ELSE IF y.class = "inf" THEN y
    ELSE IF x.mant = <<>> /\ y.mant = <<>> THEN Zero64(x.neg /\ y.neg)
    ELSE IF x.mant = <<>> THEN y
    ELSE IF y.mant = <<>> THEN x
    ELSE IF x.exp - y.exp > MantBits + 3 THEN x
    ELSE IF y.exp - x.exp > MantBits + 3 THEN y
    ELSE With(IF x.exp < y.exp THEN x.exp ELSE y.exp, LAMBDA e :
         With(ShiftLeft(x.mant, x.exp - e), LAMBDA a :
         With(ShiftLeft(y.mant, y.exp - e), LAMBDA b :
              IF x.neg = y.neg THEN RoundFloat64(x.neg, AddNat(a, b), e, FALSE)
              ELSE IF a = b THEN Zero64(FALSE)
              ELSE IF LessNat(a, b) THEN RoundFloat64(y.neg, SubNat(b, a), e, FALSE)
              ELSE RoundFloat64(x.neg, SubNat(a, b), e, FALSE))))))

\* f / d in float64, for an integer d from 1 to 2^20: the mantissa is moved
\* left until the quotient has two bits to round away.
FloatDiv(f, d) ==
    With(f, LAMBDA x :
    IF x.class # "finite" \/ x.mant = <<>> THEN x
    ELSE With(BitLen(d) + 2, LAMBDA k :
         With(ShiftLeft(x.mant, k), LAMBDA n :
         With(DivNat(n, d), LAMBDA qr : RoundFloat64(x.neg, qr.q, x.exp - k, qr.r # 0)))))

\* f <= g for two float64 (false when one is NaN).
FloatLeq(f, g) ==
    With(f, LAMBDA x :
    With(g, LAMBDA y :
    IF x.class = "nan" \/ y.class = "nan" THEN FALSE
    ELSE IF x.class = "inf" THEN x.neg \/ (y.class = "inf" /\ ~y.neg)
    ELSE IF y.class = "inf" THEN ~y.neg
    ELSE IF x.mant = <<>> /\ y.mant = <<>> THEN TRUE
    ELSE IF x.neg # y.neg THEN (x.neg /\ x.mant # <<>>) \/ (x.mant = <<>> /\ ~y.neg)
    ELSE IF x.neg THEN ~MagLess(x, y)
    ELSE ~MagLess(y, x)))

\* ------------------------------------------------------- fmt.Sscanf("%f")

UpperCase ==
    << "A", "B", "C", "D", "E", "F", "G", "H", "I", "J", "K", "L", "M",
       "N", "O", "P", "Q", "R", "S", "T", "U", "V", "W", "X", "Y", "Z" >>

LowerCase ==
    << "a", "b", "c", "d", "e", "f", "g", "h", "i", "j", "k", "l", "m",
       "n", "o", "p", "q", "r", "s", "t", "u", "v", "w", "x", "y", "z" >>

Lower(c) ==
    IF \E i \in 1..Len(UpperCase) : UpperCase[i] = c
    THEN LowerCase[CHOOSE i \in 1..Len(UpperCase) : UpperCase[i] = c]
    ELSE c

LowerAll(s) == [i \in 1..Len(s) |-> Lower(s[i])]

Without(s, c) == SelectSeq(s, LAMBDA x : x # c)

\* The largest and the smallest int, without sign.
MaxInt64 ==
    << "9", "2", "2", "3", "3", "7", "2", "0", "3", "6", "8", "5", "4", "7", "7",
       "5", "8", "0", "7" >>

MinInt64 == SubSeq(MaxInt64, 1, 18) \o << "8" >>

\* strconv.Atoi(str): an optional sign and digits, within the range of int.
Atoi(str) ==
    With(str, LAMBDA s :
    With(Run(First(s), {"+", "-"}), LAMBDA sign :
    With(Drop(s, Len(sign)), LAMBDA d :
    With(StripZeros(d), LAMBDA m :
    With(IF sign = << "-" >> THEN MinInt64 ELSE MaxInt64, LAMBDA limit :
         [ok |-> /\ IsDigits(d)
                 /\ \/ Len(m) < Len(limit)
                    \/ Len(m) = Len(limit) /\ ~DigitsLess(limit, m),
          neg |-> sign = << "-" >>, digits |-> m])))))

\* math.Ldexp(x, n) for the int n that Atoi returned: x * 2^n, where the sum
\* of n and the exponent of x is an int and wraps around as one.
Ldexp(x, n) ==
    IF x.class # "finite" \/ x.mant = <<>> THEN x
    ELSE IF Len(n.digits) <= 4
    THEN RoundFloat64(x.neg, x.mant,
                      x.exp + (IF n.neg THEN 0 - DecVal(n.digits) ELSE DecVal(n.digits)),
                      FALSE)
    ELSE With(x.exp + BitLength(x.mant) - 1, LAMBDA top :
         With(SubSeq(MaxInt64, 1, 15)
              \o FormatNat((IF n.neg THEN 5808 ELSE 5807) - (IF top < 0 THEN 0 - top ELSE top)),
              LAMBDA edge :
         LET wraps == /\ n.neg = (top < 0)
                      /\ Len(n.digits) = Len(edge)
                      /\ DigitsLess(edge, n.digits)
         IN  IF n.neg = wraps THEN Inf64(x.neg) ELSE Zero64(x.neg)))

\* strconv's underscoreOK(s): an underscore stands only between two digits,
\* or between the base prefix and a digit.
underscoreOK(s) ==
    With(Drop(s, Len(Run(First(s), {"+", "-"}))), LAMBDA t :
    With(Len(t) >= 2 /\ t[1] = "0" /\ t[2] \in {"b", "B", "o", "O", "x", "X"}, LAMBDA prefix :
    With(IF prefix THEN Drop(t, 2) ELSE t, LAMBDA u :
    With(IF prefix /\ t[2] \in {"x", "X"} THEN HexDigits ELSE Digits, LAMBDA digits :
         \A i \in 1..Len(u) :
             u[i] = "_" =>
                 /\ IF i = 1 THEN prefix ELSE u[i - 1] \in digits
                 /\ i < Len(u) /\ u[i + 1] \in digits))))

\* The exponent readFloat reads: digits are taken in while it is below
\* 10000, so no more than the first five after the leading zeros.
ExpVal(d) ==
    With(StripZeros(d), LAMBDA e : DecVal(SubSeq(e, 1, IF Len(e) > 5 THEN 5 ELSE Len(e))))

NoFloat == [ok |-> FALSE, f |-> Zero64(FALSE)]

\* The float64 of a finite value, and a range error when there is none.
InRange(f) == With(f, LAMBDA x : IF x.class = "inf" THEN NoFloat ELSE [ok |-> TRUE, f |-> x])

\* d * 10^power as a float64; the digits d are decimal and have no leading
\* zero.  A number of more than 310 digits is beyond the largest float64 and
\* one below 10^-330 is nearer to 0 than to any other.
DecimalFloat(neg, d, power) ==
    IF d = << "0" >> THEN [ok |-> TRUE, f |-> Zero64(neg)]
    ELSE IF Len(d) + power > 310 THEN NoFloat
    ELSE IF Len(d) + power < -330 THEN [ok |-> TRUE, f |-> Zero64(neg)]
    ELSE IF power >= 0
    THEN With(d \o [i \in 1..power |-> "0"], LAMBDA all :
              InRange(RoundFloat64(neg, NatOfDigits(all), 0, FALSE)))
    ELSE With(4 * (0 - power) + MantBits + 11, LAMBDA k :
         With(ShiftLeft(NatOfDigits(d), k), LAMBDA n :
         With(DivPow10(n, 0 - power, FALSE), LAMBDA q :
              InRange(RoundFloat64(neg, q.nat, 0 - k, q.sticky)))))

\* The mantissa readFloat reads from s: digits or underscores, and after
\* one point more of them; then what is left of s.
Mantissa(s, digits) ==
    With(Run(s, digits), LAMBDA int :
    With(Drop(s, Len(int)), LAMBDA t :
    With(Run(First(t), {"."}), LAMBDA point :
    With(IF point = <<>> THEN <<>> ELSE Run(Tail(t), digits), LAMBDA frac :
         [int |-> Without(int, "_"), frac |-> Without(frac, "_"),
          rest |-> Drop(t, Len(point) + Len(frac))]))))

\* The exponent readFloat reads from s after the mantissa: the mark, a sign
\* and digits or underscores that begin with a digit; then what is left.
Exponent(s, mark) ==
    IF s = <<>> \/ s[1] \notin mark
    THEN [marked |-> FALSE, given |-> FALSE, power |-> 0, rest |-> s]
    ELSE With(Run(First(Tail(s)), {"+", "-"}), LAMBDA sign :
         With(Drop(s, 1 + Len(sign)), LAMBDA t :
         With(IF t = <<>> \/ t[1] \notin Digits THEN <<>> ELSE Run(t, Digits \cup {"_"}),
              LAMBDA digits :
         With(ExpVal(Without(digits, "_")), LAMBDA e :
              [marked |-> TRUE, given |-> digits # <<>>,
               power |-> IF sign = << "-" >> THEN 0 - e ELSE e,
               rest |-> Drop(t, Len(digits))]))))

\* strconv.ParseFloat(str, 64): "nan", a signed "inf" or "infinity", or a
\* decimal or hexadecimal number that is all of str: a sign, digits with at
\* most one point, and an exponent (e for decimal digits, p and required
\* for hexadecimal ones); the nearest float64, and an error when it is out
\* of range.
ParseFloat(str) ==
    With(str, LAMBDA s :
    With(Run(First(s), {"+", "-"}), LAMBDA sign :
    With(Drop(s, Len(sign)), LAMBDA s1 :
    IF Len(s) = 3 /\ LowerAll(s) = << "n", "a", "n" >> THEN [ok |-> TRUE, f |-> NaN64]
    ELSE IF /\ Len(s1) \in {3, 8}
            /\ LowerAll(s1) \in {<< "i", "n", "f" >>,
                                 << "i", "n", "f", "i", "n", "i", "t", "y" >>}
    THEN [ok |-> TRUE, f |-> Inf64(sign = << "-" >>)]
    ELSE With(Len(s1) > 2 /\ s1[1] = "0" /\ s1[2] \in {"x", "X"}, LAMBDA hex :
         With(Mantissa(IF hex THEN Drop(s1, 2) ELSE s1,
                       (IF hex THEN HexDigits ELSE Digits) \cup {"_"}), LAMBDA m :
         With(Exponent(m.rest, IF hex THEN {"p", "P"} ELSE {"e", "E"}), LAMBDA x :
         With(m.int \o m.frac, LAMBDA all :
              IF \/ all = <<>>
                 \/ x.marked /\ ~x.given
                 \/ hex /\ ~x.marked
                 \/ x.rest # <<>>
                 \/ "_" \in {s[i] : i \in 1..Len(s)} /\ ~underscoreOK(s)
              THEN NoFloat
              ELSE IF hex
              THEN InRange(RoundFloat64(sign = << "-" >>, NatOfHex(all),
                                        x.power - 4 * Len(m.frac), FALSE))
              ELSE With(StripZeros(all), LAMBDA d :
                        DecimalFloat(sign = << "-" >>, d, x.power - Len(m.frac))))))))))

\* unicode.IsSpace apart from the newline, as fmt's isSpace has it; the
\* characters that have no escape are named by their code points.
Blanks ==
    {" ", "\t", "\r", "\f", "U+000B", "U+0085", "U+00A0", "U+1680", "U+2000",
     "U+2001", "U+2002", "U+2003", "U+2004", "U+2005", "U+2006", "U+2007",
     "U+2008", "U+2009", "U+200A", "U+2028", "U+2029", "U+202F", "U+205F",
     "U+3000"}

\* (*ss).SkipSpace() of Sscanf: blanks are passed over, a newline is an
\* error, and a carriage return before a newline is passed over too.
SkipSpace(s) ==
    With(Drop(s, Len(Run(s, Blanks))), LAMBDA rest :
         [ok |-> rest = <<>> \/ rest[1] # "\n", rest |-> rest])

\* The scanner of Sscanf while it reads a token: the characters taken into
\* its buffer and the input after them.
\* s.accept(ok[1]) && ... && s.accept(ok[n]): each takes the next character
\* if it is one of its set, and the first that takes none ends the row.
accept(s, ok) ==
    With(CHOOSE n \in 0..Len(ok) :
             /\ n <= Len(s.rest)
             /\ \A i \in 1..n : s.rest[i] \in ok[i]
             /\ n < Len(ok) => (n = Len(s.rest) \/ s.rest[n + 1] \notin ok[n + 1]),
         LAMBDA n :
         [buf |-> s.buf \o SubSeq(s.rest, 1, n), rest |-> Drop(s.rest, n),
          hit |-> n = Len(ok)])

\* for s.accept(ok) {}
acceptAll(s, ok) ==
    With(Run(s.rest, ok), LAMBDA run :
         [buf |-> s.buf \o run, rest |-> Drop(s.rest, Len(run)), hit |-> run # <<>>])

\* (*ss).floatToken(): the characters accepted one after the other for NaN,
\* a sign, Inf, a 0x prefix, digits or underscores, a point and more of
\* them, an exponent mark, its sign and its digits.
floatToken(input) ==
    With(accept([buf |-> <<>>, rest |-> input], << {"n", "N"}, {"a", "A"}, {"n", "N"} >>),
         LAMBDA nan :
    IF nan.hit THEN nan.buf
    ELSE With(accept(nan, << {"+", "-"} >>), LAMBDA sign :
         With(accept(sign, << {"i", "I"}, {"n", "N"}, {"f", "F"} >>), LAMBDA inf :
    IF inf.hit THEN inf.buf
    ELSE With(accept(inf, << {"0"}, {"x", "X"} >>), LAMBDA prefix :
         With((IF prefix.hit THEN HexDigits ELSE Digits) \cup {"_"}, LAMBDA digits :
         With(acceptAll(prefix, digits), LAMBDA int :
         With(accept(int, << {"."} >>), LAMBDA point :
         With(IF point.hit THEN acceptAll(point, digits) ELSE point, LAMBDA frac :
         With(accept(frac, << IF prefix.hit THEN {"p", "P"} ELSE {"e", "E", "p", "P"} >>),
              LAMBDA mark :
    IF ~mark.hit THEN mark.buf
    ELSE With(accept(mark, << {"+", "-"} >>), LAMBDA esign :
              acceptAll(esign, Digits \cup {"_"}).buf))))))))))

\* (*ss).convertFloat(str, 64): ParseFloat, but a decimal mantissa with a
\* binary exponent (a "p" and no "x") is put together here.
convertFloat(str) ==
    IF /\ \E i \in 1..Len(str) : str[i] = "p"
       /\ \A i \in 1..Len(str) : str[i] \notin {"x", "X"}
    THEN With(CHOOSE i \in 1..Len(str) : str[i] = "p" /\ \A j \in 1..(i - 1) : str[j] # "p",
              LAMBDA p :
         With(ParseFloat(SubSeq(str, 1, p - 1)), LAMBDA f :
         With(Atoi(SubSeq(str, p + 1, Len(str))), LAMBDA m :
              IF f.ok /\ m.ok THEN [ok |-> TRUE, f |-> Ldexp(f.f, m)] ELSE NoFloat)))
    ELSE ParseFloat(str)

\* fmt.Sscanf(amountStr, "%f", &amountMicro): blanks are skipped, the input
\* must not end there, and the token read is converted; what follows the
\* token is left unread.
ScanFloat(amountStr) ==
    With(amountStr, LAMBDA s :
    With(SkipSpace(s), LAMBDA input :
         IF ~input.ok \/ input.rest = <<>> THEN NoFloat
         ELSE With(floatToken(input.rest), LAMBDA token : convertFloat(token))))

\* ------------------------------------------------------- session ledger

\* c.sessionCalls++
TrackCalls(calls) == calls + 1

\* The USD of a whole number of micro-USD, given by its decimal digits.
USDOfMicro(d) ==
    With(StripZeros(d), LAMBDA m :
         FloatDiv(RoundFloat64(FALSE, NatOfDigits(m), 0, FALSE), MicroPerUSD))

\* if amountStr != "" { if _, err := fmt.Sscanf(amountStr, "%f", &amountMicro);
\* err == nil { c.sessionTotalUSD += amountMicro / 1_000_000 } }
TrackTotal(total, amountStr) ==
    With(amountStr, LAMBDA s :
        IF s = <<>> THEN total
        ELSE With(ScanFloat(s), LAMBDA scan :
                  IF scan.ok THEN FloatAdd(total, FloatDiv(scan.f, MicroPerUSD)) ELSE total))

\* ------------------------------------------------------- sample inputs

Clients == {"llm", "image"}

Endpoint(c) == IF c = "llm" THEN ChatEndpoint ELSE ImageEndpoint

OptionDoc(amount, payTo, timeout) ==
    [scheme |-> "exact", network |-> "eip155:8453", amount |-> amount,
     asset |-> USDCBase, payTo |-> payTo, maxTimeoutSeconds |-> timeout]

NoAmountDoc ==
    [scheme |-> "exact", network |-> "eip155:8453", asset |-> USDCBase,
     payTo |-> PayeeHex, maxTimeoutSeconds |-> 60]

OptPlain == OptionDoc(JStr(S_200000), PayeeHex, 300)
OptHalf ==
    OptionDoc(JStr(S_100000), PayeeHex, 300)
    @@ [extra |-> [name |-> JStr(<<"USDC">>), version |-> JStr(<<"1">>)]]
OptLegacy == NoAmountDoc @@ [extra |-> [maxAmountRequired |-> JStr(S_100000)]]
OptLegacyNum ==
    OptionDoc(JStr(S_empty), PayeeHex, 60) @@ [extra |-> [maxAmountRequired |-> JNum(5)]]
OptNeg == OptionDoc(JStr(S_neg), PayeeHex, 300)
OptFrac == OptionDoc(JStr(S_frac), PayeeHex, 300)
OptPlus == OptionDoc(JStr(S_plus), PayeeHex, 0)
OptBadPayee == OptionDoc(JStr(S_200000), PayeeBad, 300)
OptNumAmount == OptionDoc(JNum(1000), PayeeHex, 300)
OptBoth == OptPlain @@ [extra |-> [maxAmountRequired |-> JStr(S_100000)]]
OptHuge == OptionDoc(JStr(S_huge), PayeeHex, 300)
OptBarePayee == OptionDoc(JStr(S_100000), PayeeBare, 300)
OptNoName ==
    OptPlain @@ [extra |-> [name |-> JStr(<<>>), version |-> JStr(<<"2">>)]]
OptNoVersion == OptPlain @@ [extra |-> [version |-> JStr(<<>>)]]

\* An option of another scheme, on another chain, for another token.
OptOther ==
    [scheme |-> "upto", network |-> "eip155:1", amount |-> JStr(S_200000),
     asset |-> OtherAsset, payTo |-> PayeeHex, maxTimeoutSeconds |-> 300]

AcceptsSamples ==
    { <<>>, <<OptPlain>>, <<OptHalf>>, <<OptLegacy>>, <<NoAmountDoc>>,
      <<OptLegacyNum>>, <<OptNeg>>, <<OptFrac>>, <<OptPlus>>, <<OptBadPayee>>,
      <<OptNumAmount>>, <<NoAmountDoc, OptPlain>>, <<OptHalf, OptPlain>>,
      <<OptPlain, OptNeg>>, <<OptBoth>>, <<OptOther>>, <<OptHuge>>,
      <<OptBarePayee>>, <<OptNoName>>, <<OptNoVersion>> }

\* The options offered together with a resource and extensions.
ResourceAccepts ==
    { <<OptPlain>>, <<OptHalf>>, <<OptLegacy>>, <<NoAmountDoc>>, <<OptOther>> }

ResourceDoc == [url |-> "https://res.example/chat", description |-> "Chat", mimeType |-> "application/json"]
ResourceNoURL == [url |-> "", description |-> "Chat", mimeType |-> "application/json"]
ExtensionsDoc == [bazaar |-> JStr(<<"listed">>)]

\* The JSON documents a server may send as its challenge.
ChallengeDocs ==
    { [x402Version |-> 2, accepts |-> a] : a \in AcceptsSamples }
    \cup { [x402Version |-> 2, accepts |-> a, resource |-> ResourceDoc,
            extensions |-> ExtensionsDoc] : a \in ResourceAccepts }
    \cup { [x402Version |-> 2, accepts |-> <<OptPlain>>, resource |-> ResourceNoURL,
            extensions |-> NoKeys],
           [x402Version |-> 1] }

\* The payment-required header of a 402 response.
HeaderSamples ==
    { Base64Encode(JSONText(d)) : d \in ChallengeDocs }
    \cup { GarbageString, Base64Encode(NotJSON) }

\* The body of a 402 response that has no payment-required header: not JSON,
\* JSON without the "x402" marker, JSON with it.
MarkedDoc(d) == d @@ [x402 |-> JStr(<<"payment">>)]

FallbackBodies ==
    { NotJSON, JSONText([error |-> JStr(<<"payment required">>)]),
      JSONText(MarkedDoc([x402Version |-> 2, accepts |-> <<OptPlain>>, resource |-> ResourceDoc])),
      JSONText(MarkedDoc([x402Version |-> 2, accepts |-> <<>>])) }

\* A 402 response that states one requirement in its header and another,
\* marked, in its body.
HeaderAndBody ==
    [header |-> Base64Encode(JSONText([x402Version |-> 2, accepts |-> <<OptHalf>>])),
     body |-> JSONText(MarkedDoc([x402Version |-> 2, accepts |-> <<OptPlain>>,
                                  resource |-> ResourceDoc]))]

\* The body of a final response: JSON of the right shape, or not.
GoodBody(c) ==
    IF c = "llm"
    THEN JSONText([id |-> JStr(<<"chatcmpl-1">>), object |-> JStr(<<"chat.completion">>),
                   choices |-> JArr(1), usage |-> JObj(3)])
    ELSE JSONText([created |-> JNum(1), data |-> JArr(1)])

\* A JSON body whose "id" is a number: {"id": 5, "created": 1}.
IdNumberBody == JSONText([id |-> JNum(5), created |-> JNum(1)])

\* A chat completion without choices: {"id": "chatcmpl-2", "choices": []}.
NoChoicesBody == JSONText([id |-> JStr(<<"chatcmpl-2">>), choices |-> JArr(0)])

\* A JSON body whose "usage" is a number: {"created": 1, "usage": 5}.
UsageNumberBody == JSONText([created |-> JNum(1), usage |-> JNum(5)])

ErrorBody == JSONText([error |-> JStr(<<"server error">>)])

\* What httpClient.Do returns: a transport error, or a response.
TransportError == [err |-> TRUE, status |-> 0, header |-> AbsentString, body |-> NotJSON]
Response(status, header, body) == [err |-> FALSE, status |-> status, header |-> header, body |-> body]

FinalResponses(c) ==
    { TransportError,
      Response(StatusOK, AbsentString, GoodBody(c)),
      Response(StatusOK, AbsentString, NotJSON),
      Response(StatusOK, AbsentString, IdNumberBody),
      Response(500, AbsentString, ErrorBody) }
    \cup (IF c = "llm"
          THEN { Response(StatusOK, AbsentString, UsageNumberBody),
                 Response(StatusOK, AbsentString, NoChoicesBody) }
          ELSE {})

ChallengeResponses ==
    { Response(StatusPaymentRequired, h, ErrorBody) : h \in HeaderSamples }
    \cup { Response(StatusPaymentRequired, AbsentString, b) : b \in FallbackBodies }
    \cup { Response(StatusPaymentRequired, HeaderAndBody.header, HeaderAndBody.body) }

FirstResponses(c) == FinalResponses(c) \cup ChallengeResponses
RetryResponses(c) ==
    FinalResponses(c)
    \cup { Response(StatusPaymentRequired, Base64Encode(JSONText([x402Version |-> 2, accepts |-> <<OptPlain>>])), ErrorBody) }

\* Readings of the clock, recovery ids of the signing primitive.
Times == {1700000000, 1700000001}
RecoveryIds == {0, 1}

\* The environments of a signing step: each recovery id at its own reading
\* of the clock, the nonce source failing, the signing primitive failing.
SignEnvs(nonce) ==
    { [now |-> 1700000000 + r, nonceOK |-> TRUE, nonce |-> nonce, signOK |-> TRUE,
       recid |-> r] : r \in RecoveryIds }
    \cup { [now |-> 1700000000, nonceOK |-> FALSE, nonce |-> nonce, signOK |-> TRUE, recid |-> 0],
           [now |-> 1700000000, nonceOK |-> TRUE, nonce |-> nonce, signOK |-> FALSE, recid |-> 0] }

\* Arguments of ChatCompletion: model, number of messages, opts.Temperature
\* ("+Inf" is a float json.Marshal cannot encode).
ChatInputs ==
    { [model |-> "openai/gpt-4o", messages |-> 1, temperature |-> "unset"],
      [model |-> "", messages |-> 1, temperature |-> "unset"],
      [model |-> "openai/gpt-4o", messages |-> 0, temperature |-> "unset"],
      [model |-> "openai/gpt-4o", messages |-> 1, temperature |-> "+Inf"] }

ImageInputs == { [prompt |-> "a cat"] }

\* Arguments of Chat (model, prompt) and of ChatWithSystem (model, prompt,
\* system).
ChatPrompts == { [model |-> "openai/gpt-4o", prompt |-> "hello"] }
SystemPrompts ==
    { [model |-> "openai/gpt-4o", prompt |-> "hello", system |-> "be brief"],
      [model |-> "", prompt |-> "hello", system |-> ""] }

\* What the server answers to a list request.
ModelsBody == JSONText([data |-> JArr(2)])
ListResponses ==
    { TransportError,
      Response(StatusOK, AbsentString, ModelsBody),
      Response(StatusOK, AbsentString, NotJSON),
      Response(500, AbsentString, ErrorBody) }

\* Arguments of the constructors: the privateKey parameter, the options and
\* the environment read by os.Getenv.
KeyParams ==
    { NoText, KeyText("", HexA), KeyText("0x", HexA), KeyText("", "invalid-key"),
      KeyText("", "abcd"), KeyText("0x", ""), KeyText("", HexZero) }

OptionLists == { <<>>, << URLText(ProxyURL, TRUE) >>, << URLText(BadHostURL, FALSE) >> }

KeyEnvirons ==
    { [BLOCKRUN_WALLET_KEY |-> k1, BASE_CHAIN_WALLET_KEY |-> k2, BLOCKRUN_API_URL |-> NoURL] :
        k1 \in {NoText, KeyText("0x", HexB)},
        k2 \in {NoText, KeyText("", HexA), KeyText("", "invalid-key")} }

URLEnvirons ==
    { [BLOCKRUN_WALLET_KEY |-> NoText, BASE_CHAIN_WALLET_KEY |-> k2, BLOCKRUN_API_URL |-> u] :
        k2 \in {NoText, KeyText("", HexA)},
        u \in {NoURL, URLText(AltURL, TRUE)} }

\* Every key parameter in every key environment, and the options and
\* BLOCKRUN_API_URL around a good key.
ClientInputs ==
    { [privateKey |-> k, opts |-> <<>>, environ |-> e] :
        k \in KeyParams, e \in KeyEnvirons }
    \cup { [privateKey |-> k, opts |-> o, environ |-> e] :
        k \in {NoText, KeyText("", HexA)}, o \in OptionLists, e \in URLEnvirons }

\* An environment with no key and no URL.
NoEnviron ==
    [BLOCKRUN_WALLET_KEY |-> NoText, BASE_CHAIN_WALLET_KEY |-> NoText,
     BLOCKRUN_API_URL |-> NoURL]

\* Wallet directories: .session absent, empty, white space only, a key
\* followed by a newline, or text that is no key; wallet.key absent or a key.
SessionFiles ==
    { NoFile, Padded(NoText, FALSE), Padded(NoText, TRUE),
      Padded(KeyText("", HexA), TRUE), Padded(KeyText("", "invalid-key"), FALSE) }
LegacyFiles == { NoFile, Padded(KeyText("0x", HexB), FALSE) }
WalletDirs == { [session |-> f1, legacy |-> f2] : f1 \in SessionFiles, f2 \in LegacyFiles }

\* What crypto.GenerateKey and the file system do in one GetOrCreateWallet.
Generated ==
    { [randOK |-> TRUE, hex |-> h, writable |-> TRUE] : h \in {HexA, HexB} }
    \cup { [randOK |-> FALSE, hex |-> HexA, writable |-> TRUE],
           [randOK |-> TRUE, hex |-> HexA, writable |-> FALSE] }

\* Arguments of SaveWallet.
SavedTexts ==
    { Padded(KeyText("0x", HexA), FALSE), Padded(KeyText("", HexB), FALSE),
      Padded(KeyText("", HexB), TRUE), Padded(NoText, FALSE) }

\* ------------------------------------------------------------- the state

VARIABLES
    privateKey,       \* client -> its signing key (set by the constructor)
    apiURL,           \* client -> API base URL
    sessionCalls,     \* client -> c.sessionCalls
    sessionTotalUSD,  \* client -> c.sessionTotalUSD, a float64
    pc,               \* position of the one call in progress
    cur,              \* the client the call runs on
    url,              \* requestWithPayment: url
    jsonBody,         \* requestWithPayment: jsonBody
    requests,         \* the HTTP requests issued by this call, in order
    resp,             \* the response to the first request
    retryResp,        \* the response to the retried request
    err,              \* handlePaymentAndRetry: err of the last payment step
    paymentHeader,    \* handlePaymentAndRetry: paymentHeader
    paymentReq,       \* handlePaymentAndRetry: paymentReq
    paymentOption,    \* handlePaymentAndRetry: paymentOption
    resourceURL,      \* handlePaymentAndRetry: resourceURL
    paymentPayload,   \* handlePaymentAndRetry: paymentPayload
    result,           \* what ChatCompletion / Generate / the constructor returns
    returned,         \* what the public function that was called returns
    nextNonce,        \* crypto/rand: the next fresh nonce
    nCalls,           \* history: calls started and clients built
    trace,            \* history: the steps of this call, in order
    ledgerAtCall,     \* history: the ledgers when the call started
    settledPaid,      \* history: client -> retried requests answered 200
    settledUSD,       \* history: client -> float64 sum of their amounts / 10^6
    args,             \* history: the operation last called and its arguments
    goroutines,       \* concurrent calls on one client: goroutine -> position,
                      \* amount being paid, the values it has loaded, the
                      \* requests it has sent and what its call returns
    overlapped,       \* history: a concurrent call started while another ran
    updates,          \* history: ledger updates begun by concurrent calls
    environ,          \* the process environment read by the wallet functions
    files,            \* WalletDir: the .session file and the legacy wallet.key
    walletResult,     \* history: the last wallet operation and what it returned
    walletPrev        \* history: the wallet operation before it

vars ==
    << privateKey, apiURL, sessionCalls, sessionTotalUSD, pc, cur, url, jsonBody,
       requests, resp, retryResp, err, paymentHeader, paymentReq, paymentOption, resourceURL,
       paymentPayload, result, returned, nextNonce, nCalls, trace, ledgerAtCall,
       settledPaid, settledUSD, args, goroutines, overlapped, updates,
       environ, files, walletResult, walletPrev >>

clientVars == << privateKey, apiURL >>
ledgerVars == << sessionCalls, sessionTotalUSD >>
paymentVars == << paymentHeader, paymentReq, paymentOption, resourceURL, paymentPayload >>
historyVars == << nCalls, ledgerAtCall, settledPaid, settledUSD, args >>
\* State outside the one sequential call.
raceVars == << goroutines, overlapped, updates >>
walletVars == << environ, files, walletResult, walletPrev >>
outsideVars == << raceVars, walletVars >>

\* The goroutines that share the LLMClient, and one that is not in a call.
Goroutines == {"g1", "g2"}
GoIdle ==
    [pc |-> "idle", amount |-> <<>>, calls |-> 0, total |-> Zero64(FALSE),
     requests |-> <<>>,
     result |-> [kind |-> "none", status |-> 0, message |-> "", value |-> NotJSON]]

\* No wallet operation yet.
NoWalletResult ==
    [op |-> "none", environ |-> NoEnviron, before |-> NoFiles, ok |-> TRUE,
     key |-> NoText, wallet |-> NoWallet, created |-> FALSE, saved |-> NoFile]

NoResponse == [err |-> FALSE, status |-> 0, header |-> AbsentString, body |-> NotJSON]
NoResult == [kind |-> "none", status |-> 0, message |-> "", value |-> NotJSON]
NoArgs == [op |-> "none", in |-> NoKeys]
Called(op, in) == [op |-> op, in |-> in]

\* The values a call returns.
Success(body) == [kind |-> "ok", status |-> 0, message |-> "", value |-> body]
ValidationError(field) == [kind |-> "ValidationError", status |-> 0, message |-> field, value |-> NotJSON]
PaymentErrorUntyped(message) == [kind |-> "error", status |-> 0, message |-> message, value |-> NotJSON]

PaymentError(message) == [kind |-> "PaymentError", status |-> 0, message |-> message, value |-> NotJSON]
\* An APIError that carries the status code but not the response body.
APIErrorNoBody(status, message, body) ==
    [kind |-> "APIError", status |-> status, message |-> message, value |-> NotJSON]

\* &APIError{StatusCode, Message: prefix + string(bodyBytes)}
APIError(status, message, body) == [kind |-> "APIError", status |-> status, message |-> message, value |-> body]
\* A wrapped error reported as an APIError without a status.
PlainErrorAsAPIError(message) == APIError(0, message, NotJSON)

\* fmt.Errorf("...: %w", err): an error of no exported type.
PlainError(message) == [kind |-> "error", status |-> 0, message |-> message, value |-> NotJSON]

\* http.NewRequest("POST", url, body) with its headers set.
FirstRequest(u, body) ==
    [method |-> "POST", url |-> u, body |-> body,
     contentType |-> "application/json", paymentSignature |-> AbsentString]

RetryRequestNoContentType(u, body, payload) ==
    [method |-> "POST", url |-> u, body |-> body,
     contentType |-> "", paymentSignature |-> payload]

RetryRequest(u, body, payload) ==
    [method |-> "POST", url |-> u, body |-> body,
     contentType |-> "application/json", paymentSignature |-> payload]

\* httpClient.Get(url): a GET without body or headers of the client's own.
GetRequest(u) ==
    [method |-> "GET", url |-> u, body |-> NotJSON, contentType |-> "",
     paymentSignature |-> AbsentString]

\* No call was made yet: empty ledgers, nothing in flight.
InitCall ==
    /\ sessionCalls = [c \in Clients |-> 0]
    /\ sessionTotalUSD = [c \in Clients |-> Zero64(FALSE)]
    /\ pc = "idle"
    /\ cur = "llm"
    /\ url = ""
    /\ jsonBody = NotJSON
    /\ requests = <<>>
    /\ resp = NoResponse
    /\ retryResp = NoResponse
    /\ err = ""
    /\ paymentHeader = AbsentString
    /\ paymentReq = ZeroRequirement
    /\ paymentOption = ZeroOption
    /\ resourceURL = ""
    /\ paymentPayload = NoPayload
    /\ result = NoResult
    /\ returned = NoResult
    /\ nextNonce = 1
    /\ nCalls = 0
    /\ trace = <<>>
    /\ ledgerAtCall = [calls |-> [c \in Clients |-> 0], total |-> [c \in Clients |-> Zero64(FALSE)]]
    /\ settledPaid = [c \in Clients |-> 0]
    /\ settledUSD = [c \in Clients |-> Zero64(FALSE)]
    /\ args = NoArgs
    /\ goroutines = [g \in Goroutines |-> GoIdle]
    /\ overlapped = FALSE
    /\ updates = 0

\* No wallet operation yet, no key in the environment, no wallet file.
InitHome ==
    /\ environ = NoEnviron
    /\ files = NoFiles
    /\ walletResult = NoWalletResult
    /\ walletPrev = NoWalletResult

\* NewLLMClient / NewImageClient with valid keys: an empty ledger.
Init ==
    /\ InitHome
    /\ privateKey = [c \in Clients |-> IF c = "llm" THEN KeyA ELSE KeyB]
    /\ apiURL = [c \in Clients |-> DefaultAPIURL]
    /\ InitCall

\* Before any client is built.
InitNew ==
    /\ InitHome
    /\ privateKey = [c \in Clients |-> NoKey]
    /\ apiURL = [c \in Clients |-> ""]
    /\ InitCall

\* len(resp.Choices): the elements of the body's "choices", none when the
\* key is absent.
Choices(body) ==
    IF "choices" \in DOMAIN body.doc THEN body.doc.choices.n ELSE 0

\* resp.Choices[0].Message.Content: the text of the first choice of `body`.
Content(body) == [kind |-> "content", status |-> 0, message |-> "", value |-> body]

\* ChatWithSystem once ChatCompletion has returned r: its error is passed
\* on; a response without choices is an APIError (no status, no body); else
\* the content of the first choice.
ChatWithSystemReturns(r) ==
    IF r.kind # "ok" THEN r
    ELSE IF Choices(r.value) = 0 THEN APIError(0, "No choices in response", NotJSON)
    ELSE Content(r.value)

\* What the public function `op` returns when the call it wraps returns r.
Returned(op, r) ==
    IF op \in {"Chat", "ChatWithSystem"} THEN ChatWithSystemReturns(r) ELSE r

\* The call returns `r` without (further) HTTP traffic; only the steps after
\* a response return a success, and they leave args as the call set it.
Finish(r, step) ==
    /\ pc' = "done"
    /\ result' = r
    /\ returned' = Returned(args.op, r)
    /\ trace' = Append(trace, step)

\* What a constructor returns on success: the client `c`.
Client(c) == [kind |-> "client", status |-> 0, message |-> c, value |-> NotJSON]

\* NewLLMClient(privateKey, opts...) / NewImageClient(privateKey, opts...)
\* called by a program that holds no client of that kind yet.
NewClient(c, in) ==
    /\ pc = "idle"
    /\ privateKey[c] = NoKey
    /\ args' = Called(IF c = "llm" THEN "NewLLMClient" ELSE "NewImageClient", in)
    /\ cur' = c
    /\ ledgerAtCall' = [calls |-> sessionCalls, total |-> sessionTotalUSD]
    /\ LET built == IF c = "llm"
                    THEN NewLLMClient(in.privateKey, in.opts, in.environ)
                    ELSE NewImageClient(in.privateKey, in.opts, in.environ)
       IN  IF ~built.ok
           THEN /\ Finish(ValidationError(built.field), "invalid-key")
                /\ UNCHANGED << clientVars, ledgerVars, nCalls >>
           ELSE /\ nCalls < MaxCalls
                /\ nCalls' = nCalls + 1
                /\ privateKey' = [privateKey EXCEPT ![c] = built.key]
                /\ apiURL' = [apiURL EXCEPT ![c] = built.apiURL]
                /\ sessionCalls' = [sessionCalls EXCEPT ![c] = 0]
                /\ sessionTotalUSD' = [sessionTotalUSD EXCEPT ![c] = Zero64(FALSE)]
                /\ Finish(Client(c), "built")
    /\ UNCHANGED << outsideVars, url, jsonBody, requests, resp, retryResp, err,
                    paymentVars, nextNonce, settledPaid, settledUSD >>

\* requestWithPayment up to and including the first httpClient.Do: encode
\* the body, build the POST (http.NewRequest parses the URL) and send it.
RequestWithPayment(c, body, encodable) ==
    /\ cur' = c
    /\ nCalls' = nCalls + 1
    /\ ledgerAtCall' = [calls |-> sessionCalls, total |-> sessionTotalUSD]
    /\ IF ~encodable
       THEN /\ Finish(PlainError("failed to encode request body"), "encode-failed")
            /\ UNCHANGED << url, jsonBody, requests >>
       ELSE IF ~URLParses(apiURL[c], Endpoint(c))
       THEN /\ Finish(PlainError("failed to create request"), "request-failed")
            /\ url' = apiURL[c] \o Endpoint(c)
            /\ jsonBody' = JSONText(body)
            /\ UNCHANGED requests
       ELSE /\ url' = apiURL[c] \o Endpoint(c)
            /\ jsonBody' = JSONText(body)
            /\ requests' = << FirstRequest(apiURL[c] \o Endpoint(c), JSONText(body)) >>
            /\ pc' = "sent"
            /\ trace' = Append(trace, "request")
            /\ UNCHANGED << result, returned >>
    /\ UNCHANGED << outsideVars, clientVars, ledgerVars, resp, retryResp, err, paymentVars,
                    nextNonce, settledPaid, settledUSD >>

\* The body of ChatCompletion(model, messages, opts): validation, then
\* requestWithPayment.
ChatCompletionBody(in) ==
    IF in.model = "" \/ in.messages = 0
    THEN /\ Finish(ValidationError(IF in.model = "" THEN "model" ELSE "messages"), "invalid")
         /\ cur' = "llm"
         /\ nCalls' = nCalls + 1
         /\ ledgerAtCall' = [calls |-> sessionCalls, total |-> sessionTotalUSD]
         /\ UNCHANGED << outsideVars, clientVars, ledgerVars, url, jsonBody, requests, resp,
                         retryResp, err, paymentVars, nextNonce, settledPaid,
                         settledUSD >>
    ELSE RequestWithPayment("llm",
             [model |-> in.model, messages |-> in.messages, max_tokens |-> 1024],
             in.temperature # "+Inf")

\* LLMClient.ChatCompletion(model, messages, opts)
ChatCompletion(in) ==
    /\ pc = "idle"
    /\ nCalls < MaxCalls
    /\ privateKey["llm"] # NoKey
    /\ args' = Called("ChatCompletion", in)
    /\ ChatCompletionBody(in)

\* The messages ChatWithSystem builds: the system prompt, when there is one,
\* and the user prompt.
ChatMessages(system) == IF system = "" THEN 1 ELSE 2

\* LLMClient.ChatWithSystem(model, prompt, system): ChatCompletion with the
\* messages it builds and no options.
ChatWithSystem(in) ==
    /\ pc = "idle"
    /\ nCalls < MaxCalls
    /\ privateKey["llm"] # NoKey
    /\ args' = Called("ChatWithSystem", in)
    /\ ChatCompletionBody([model |-> in.model, messages |-> ChatMessages(in.system),
                           temperature |-> "unset"])

\* LLMClient.Chat(model, prompt): ChatWithSystem without a system prompt.
Chat(in) ==
    /\ pc = "idle"
    /\ nCalls < MaxCalls
    /\ privateKey["llm"] # NoKey
    /\ args' = Called("Chat", in)
    /\ ChatCompletionBody([model |-> in.model, messages |-> ChatMessages(""),
                           temperature |-> "unset"])

\* ImageClient.Generate(prompt, opts)
Generate(in) ==
    /\ pc = "idle"
    /\ nCalls < MaxCalls
    /\ privateKey["image"] # NoKey
    /\ args' = Called("Generate", in)
    /\ RequestWithPayment("image",
            [prompt |-> in.prompt, model |-> "google/nano-banana",
             size |-> "1024x1024", n |-> 1],
            TRUE)

\* What GetAddressFromKey returns on success: the address.
Address(a) == [kind |-> "address", status |-> 0, message |-> a, value |-> NotJSON]

\* GetAddressFromKey(privateKey) called between two calls.
AddressFromKey(k) ==
    /\ pc = "idle"
    /\ args' = Called("GetAddressFromKey", [privateKey |-> k])
    /\ ledgerAtCall' = [calls |-> sessionCalls, total |-> sessionTotalUSD]
    /\ IF GetAddressFromKey(k).ok
       THEN Finish(Address(GetAddressFromKey(k).address), "address")
       ELSE Finish(PlainError("invalid private key"), "invalid-key")
    /\ UNCHANGED << outsideVars, clientVars, ledgerVars, cur, url, jsonBody, requests, resp,
                    retryResp, err, paymentVars, nextNonce, nCalls, settledPaid,
                    settledUSD >>

\* json.NewDecoder(body).Decode(&chatResp / &imageResp)
DecodeAlwaysOK(body) == TRUE

\* The fields of ChatResponse and of ImageResponse with the JSON type each
\* accepts; other keys of a body are ignored.
ChatResponseFields ==
    [id |-> "str", object |-> "str", created |-> "num", model |-> "str",
     choices |-> "arr", usage |-> "obj"]

ImageResponseFields == [created |-> "num", data |-> "arr"]

ResponseFields(c) == IF c = "llm" THEN ChatResponseFields ELSE ImageResponseFields

\* Decode into a struct with these fields: the body is JSON and no field of
\* the struct is given a value of another type.
DecodeInto(fields, body) ==
    /\ body.isJSON
    /\ \A k \in DOMAIN fields \cap DOMAIN body.doc : body.doc[k].t = fields[k]

DecodeOK(body) == DecodeInto(ResponseFields(cur), body)

\* The list functions of each client; ListAllModels calls ListModels and then
\* ListImageModels.
ListOps(c) ==
    IF c = "llm" THEN {"ListModels", "ListImageModels", "ListAllModels"}
    ELSE {"ListImageModels"}

\* What the n-th GET of `op` lists, and its path.
ListKind(op, n) ==
    IF op = "ListImageModels" \/ (op = "ListAllModels" /\ n = 2) THEN "image models"
    ELSE "models"

ListPath(op, n) ==
    IF ListKind(op, n) = "models" THEN ModelsEndpoint ELSE ImageModelsEndpoint

\* struct { Data []Model `json:"data"` } and its image twin.
ModelsFields == [data |-> "arr"]

\* ListModels / ListImageModels after httpClient.Get returned r.
ListOne(kind, r) ==
    IF r.err THEN PlainError("failed to list " \o kind)
    ELSE IF r.status # StatusOK
    THEN APIError(r.status, "Failed to list " \o kind, NotJSON)
    ELSE IF ~DecodeInto(ModelsFields, r.body)
    THEN PlainError("failed to decode " \o kind \o " response")
    ELSE Success(r.body)

\* len(result.Data), and the models of two lists in one.
Listed(body) == IF "data" \in DOMAIN body.doc THEN body.doc.data.n ELSE 0

Combined(first, second) == JSONText([data |-> JArr(Listed(first) + Listed(second))])

\* What `op` returns when its n-th GET returned r (`first` is the body of
\* the list before it): ListAllModels wraps the error of either list.
ListReturns(op, n, r, first) ==
    LET listed == ListOne(ListKind(op, n), r)
    IN  IF op # "ListAllModels" THEN listed
        ELSE IF listed.kind # "ok"
        THEN PlainError(IF n = 1 THEN "failed to list LLM models"
                        ELSE "failed to list image models")
        ELSE Success(Combined(first, r.body))

\* requestWithPayment after the first httpClient.Do returned `r`.
FirstResponse(r) ==
    /\ pc = "sent"
    /\ resp' = r
    /\ IF r.err
       THEN Finish(PlainError("request failed"), "transport-error")
       ELSE IF r.status = StatusPaymentRequired
       THEN /\ pc' = "challenge"
            /\ trace' = Append(trace, "402")
            /\ UNCHANGED << result, returned >>
       ELSE IF r.status # StatusOK
       THEN Finish(APIError(r.status, "API error", r.body), "api-error")
       ELSE IF ~DecodeOK(r.body)
       THEN Finish(PlainError("failed to decode response"), "decode-failed")
       ELSE Finish(Success(r.body), "free")
    /\ UNCHANGED << outsideVars, clientVars, ledgerVars, cur, url, jsonBody, requests,
                    retryResp, err, paymentVars, nextNonce, historyVars >>

\* RecoverHeader with the body consulted before the header.
RecoverHeaderBodyFirst(r) ==
    IF r.body.isJSON /\ "x402" \in DOMAIN r.body.doc
    THEN RawString(JSONText(r.body.doc))
    ELSE r.header

\* handlePaymentAndRetry, the payment-required header: from the response
\* header, else the response body re-encoded when it is a JSON object with
\* an "x402" key.
RecoverHeader(r) ==
    IF r.header.enc # "absent" THEN r.header
    ELSE IF r.body.isJSON /\ "x402" \in DOMAIN r.body.doc
         THEN RawString(JSONText(r.body.doc))
         ELSE AbsentString

\* A 402 without a challenge reported as an APIError carrying status and body.
NoChallengeAPIError(r) == APIError(r.status, "API error", r.body)

\* handlePaymentAndRetry: the error returned when paymentHeader is still "".
NoChallengeError(r) == PaymentError("402 response but no payment requirements found")

\* handlePaymentAndRetry: the payment-required header is recovered.
RecoverChallenge ==
    /\ pc = "challenge"
    /\ paymentHeader' = RecoverHeader(resp)
    /\ IF RecoverHeader(resp).enc = "absent"
       THEN Finish(NoChallengeError(resp), "no-challenge")
       ELSE /\ pc' = "header"
            /\ trace' = Append(trace, "challenge")
            /\ UNCHANGED << result, returned >>
    /\ UNCHANGED << outsideVars, clientVars, ledgerVars, cur, url, jsonBody, requests, resp,
                    retryResp, err, paymentReq, paymentOption, resourceURL,
                    paymentPayload, nextNonce, historyVars >>

\* handlePaymentAndRetry: ParsePaymentRequired(paymentHeader)
ParseChallenge ==
    /\ pc = "header"
    /\ LET parsed == ParsePaymentRequired(paymentHeader) IN
       IF ~parsed.ok
       THEN /\ Finish(PaymentError("Failed to parse payment requirements"), "parse-failed")
            /\ err' = "failed to parse payment required"
            /\ UNCHANGED paymentReq
       ELSE /\ paymentReq' = parsed.req
            /\ err' = ""
            /\ pc' = "parsed"
            /\ trace' = Append(trace, "parsed")
            /\ UNCHANGED << result, returned >>
    /\ UNCHANGED << outsideVars, clientVars, ledgerVars, cur, url, jsonBody, requests, resp,
                    retryResp, paymentHeader, paymentOption, resourceURL,
                    paymentPayload, nextNonce, historyVars >>

\* The resource URL taken to be the request URL whatever the challenge says.
ResourceURLOfRequest(req, u) == u

\* handlePaymentAndRetry: ExtractPaymentDetails(paymentReq) and the resource
\* URL (the challenge's, or the request URL when that is empty).
ResourceURLOf(req, u) == IF req.Resource.URL = "" THEN u ELSE req.Resource.URL

ExtractOption ==
    /\ pc = "parsed"
    /\ LET details == ExtractPaymentDetails(paymentReq) IN
       IF ~details.ok
       THEN /\ Finish(PaymentError("Failed to extract payment details"), "extract-failed")
            /\ err' = "no payment option or amount"
            /\ UNCHANGED << paymentOption, resourceURL >>
       ELSE /\ paymentOption' = details.option
            /\ err' = ""
            /\ resourceURL' = ResourceURLOf(paymentReq, url)
            /\ pc' = "extracted"
            /\ trace' = Append(trace, "extracted")
            /\ UNCHANGED << result, returned >>
    /\ UNCHANGED << outsideVars, clientVars, ledgerVars, cur, url, jsonBody, requests, resp,
                    retryResp, paymentHeader, paymentReq, paymentPayload, nextNonce,
                    historyVars >>

\* SignPayment with the error of CreatePaymentPayload ignored.
SignPaymentUnchecked(env) ==
    /\ pc = "extracted"
    /\ LET created == CreatePaymentPayload(privateKey[cur], paymentOption.PayTo,
                          paymentOption.Amount, paymentOption.Network, resourceURL,
                          paymentReq.Resource.Description,
                          paymentOption.MaxTimeoutSeconds, paymentOption.Extra,
                          paymentReq.Extensions, env) IN
       /\ paymentPayload' = created.header
       /\ err' = created.err
    /\ pc' = "signed"
    /\ trace' = Append(trace, "signed")
    /\ nextNonce' = IF env.nonceOK THEN nextNonce + 1 ELSE nextNonce
    /\ UNCHANGED << outsideVars, clientVars, ledgerVars, cur, url, jsonBody, requests, resp,
                    retryResp, paymentHeader, paymentReq, paymentOption, resourceURL,
                    result, returned, historyVars >>

\* handlePaymentAndRetry: CreatePaymentPayload(...), in the environment env.
SignPayment(env) ==
    /\ pc = "extracted"
    /\ LET created == CreatePaymentPayload(privateKey[cur], paymentOption.PayTo,
                          paymentOption.Amount, paymentOption.Network, resourceURL,
                          paymentReq.Resource.Description,
                          paymentOption.MaxTimeoutSeconds, paymentOption.Extra,
                          paymentReq.Extensions, env) IN
       IF ~created.ok
       THEN /\ Finish(PaymentError("Failed to create payment"), "sign-failed")
            /\ err' = created.err
            /\ UNCHANGED paymentPayload
       ELSE /\ paymentPayload' = created.header
            /\ err' = ""
            /\ pc' = "signed"
            /\ trace' = Append(trace, "signed")
            /\ UNCHANGED << result, returned >>
    /\ nextNonce' = IF env.nonceOK THEN nextNonce + 1 ELSE nextNonce
    /\ UNCHANGED << outsideVars, clientVars, ledgerVars, cur, url, jsonBody, requests, resp,
                    retryResp, paymentHeader, paymentReq, paymentOption, resourceURL,
                    historyVars >>

\* SendRetry, but the retried request is awaited like the first one.
SendRetryAsFirst ==
    /\ pc = "signed"
    /\ Len(requests) < 3
    /\ requests' = Append(requests, RetryRequest(url, jsonBody, paymentPayload))
    /\ pc' = "sent"
    /\ trace' = Append(trace, "retry")
    /\ UNCHANGED << outsideVars, clientVars, ledgerVars, cur, url, jsonBody, resp, retryResp, err,
                    paymentVars, result, returned, nextNonce, historyVars >>

\* handlePaymentAndRetry: the retried POST with PAYMENT-SIGNATURE.
SendRetry ==
    /\ pc = "signed"
    /\ requests' = Append(requests, RetryRequest(url, jsonBody, paymentPayload))
    /\ pc' = "retried"
    /\ trace' = Append(trace, "retry")
    /\ UNCHANGED << outsideVars, clientVars, ledgerVars, cur, url, jsonBody, resp, retryResp, err,
                    paymentVars, result, returned, nextNonce, historyVars >>

\* The amount of the option being paid (the integer that is signed), in USD.
AmountUSD(option) == USDOfMicro(BigIntSetString(option.Amount).digits)

\* handlePaymentAndRetry after the retried httpClient.Do returned `r`.
HandleRetryResponse(r) ==
    /\ pc = "retried"
    /\ retryResp' = r
    /\ IF ~r.err /\ r.status = StatusOK
       THEN /\ settledPaid' = [settledPaid EXCEPT ![cur] = @ + 1]
            /\ settledUSD' = [settledUSD EXCEPT ![cur] = FloatAdd(@, AmountUSD(paymentOption))]
       ELSE UNCHANGED << settledPaid, settledUSD >>
    /\ IF r.err
       THEN /\ Finish(PlainError("retry request failed"), "transport-error")
            /\ UNCHANGED ledgerVars
       ELSE IF r.status = StatusPaymentRequired
       THEN /\ Finish(PaymentError("Payment was rejected. Check your wallet balance."), "rejected")
            /\ UNCHANGED ledgerVars
       ELSE IF r.status # StatusOK
       THEN /\ Finish(APIError(r.status, "API error after payment", r.body), "api-error")
            /\ UNCHANGED ledgerVars
       ELSE IF ~DecodeOK(r.body)
       THEN /\ Finish(PlainError("failed to decode response"), "decode-failed")
            /\ UNCHANGED ledgerVars
       ELSE /\ sessionCalls' = [sessionCalls EXCEPT ![cur] = TrackCalls(@)]
            /\ sessionTotalUSD' =
                  [sessionTotalUSD EXCEPT ![cur] = TrackTotal(@, paymentOption.Amount)]
            /\ Finish(Success(r.body), "settled")
    /\ UNCHANGED << outsideVars, clientVars, cur, url, jsonBody, requests, resp, err,
                    paymentVars, nextNonce, nCalls, ledgerAtCall, args >>

\* HandleRetryResponse, but a second 402 starts another payment round.
RetryResponseResign(r) ==
    IF ~r.err /\ r.status = StatusPaymentRequired
    THEN /\ pc = "retried"
         /\ resp' = r
         /\ retryResp' = r
         /\ pc' = "challenge"
         /\ trace' = Append(trace, "402")
         /\ UNCHANGED << outsideVars, clientVars, ledgerVars, cur, url, jsonBody, requests, err,
                         paymentVars, result, returned, nextNonce, historyVars >>
    ELSE HandleRetryResponse(r)

\* HandleRetryResponse, but spending is tracked before the status is checked.
RetryResponseTracksFirst(r) ==
    IF ~r.err /\ r.status \notin {StatusOK, StatusPaymentRequired}
    THEN /\ pc = "retried"
         /\ retryResp' = r
         /\ sessionCalls' = [sessionCalls EXCEPT ![cur] = TrackCalls(@)]
         /\ sessionTotalUSD' =
               [sessionTotalUSD EXCEPT ![cur] = TrackTotal(@, paymentOption.Amount)]
         /\ Finish(APIError(r.status, "API error after payment", r.body), "api-error")
         /\ UNCHANGED << outsideVars, clientVars, cur, url, jsonBody, requests, resp, err,
                         paymentVars, nextNonce, historyVars >>
    ELSE HandleRetryResponse(r)

\* HandleRetryResponse, but a retried request that fails in transport is
\* sent again.
RetryResponseResend(r) ==
    IF r.err
    THEN /\ pc = "retried"
         /\ Len(requests) < 4
         /\ retryResp' = r
         /\ requests' = Append(requests, requests[Len(requests)])
         /\ trace' = Append(trace, "retry")
         /\ UNCHANGED << outsideVars, clientVars, ledgerVars, pc, cur, url, jsonBody, resp, err,
                         paymentVars, result, returned, nextNonce, historyVars >>
    ELSE HandleRetryResponse(r)

\* HandleRetryResponse, but the image client does not track its spending.
RetryResponseImageUntracked(r) ==
    IF cur = "image" /\ ~r.err /\ r.status = StatusOK /\ DecodeOK(r.body)
    THEN /\ pc = "retried"
         /\ retryResp' = r
         /\ settledPaid' = [settledPaid EXCEPT ![cur] = @ + 1]
         /\ settledUSD' = [settledUSD EXCEPT ![cur] = FloatAdd(@, AmountUSD(paymentOption))]
         /\ Finish(Success(r.body), "settled")
         /\ UNCHANGED << outsideVars, clientVars, ledgerVars, cur, url, jsonBody, requests,
                         resp, err, paymentVars, nextNonce, nCalls, ledgerAtCall, args >>
    ELSE HandleRetryResponse(r)

RetryResponse(r) == HandleRetryResponse(r)

\* The call has returned; the client is ready for the next one.
ListStep ==
    UNCHANGED << outsideVars, clientVars, ledgerVars, jsonBody, retryResp, err,
                 paymentVars, nextNonce, settledPaid, settledUSD >>

\* ListModels / ListImageModels / ListAllModels up to their first
\* httpClient.Get, which parses the URL before it sends anything.
ListCall(c, op) ==
    /\ pc = "idle"
    /\ nCalls < MaxCalls
    /\ privateKey[c] # NoKey
    /\ op \in ListOps(c)
    /\ args' = Called(op, NoKeys)
    /\ cur' = c
    /\ nCalls' = nCalls + 1
    /\ ledgerAtCall' = [calls |-> sessionCalls, total |-> sessionTotalUSD]
    /\ url' = apiURL[c] \o ListPath(op, 1)
    /\ IF ~URLParses(apiURL[c], ListPath(op, 1))
       THEN /\ Finish(ListReturns(op, 1, TransportError, NotJSON), "get-failed")
            /\ UNCHANGED requests
       ELSE /\ requests' = << GetRequest(apiURL[c] \o ListPath(op, 1)) >>
            /\ pc' = "listing"
            /\ trace' = Append(trace, "get")
            /\ UNCHANGED << result, returned >>
    /\ UNCHANGED resp
    /\ ListStep

\* The list function in progress after its httpClient.Get returned `r`:
\* ListAllModels goes on to its second list when the first succeeded.
ListResponse(r) ==
    /\ pc \in {"listing", "listing-second"}
    /\ LET n == Len(requests)
           listed == ListOne(ListKind(args.op, n), r)
       IN  IF args.op = "ListAllModels" /\ n = 1 /\ listed.kind = "ok"
           THEN /\ resp' = r
                /\ url' = apiURL[cur] \o ListPath(args.op, 2)
                /\ requests' = Append(requests, GetRequest(apiURL[cur] \o ListPath(args.op, 2)))
                /\ trace' = Append(trace, "get")
                /\ pc' = "listing-second"
                /\ UNCHANGED << result, returned >>
           ELSE /\ resp' = IF n = 1 THEN r ELSE resp
                /\ Finish(ListReturns(args.op, n, r, resp.body),
                          IF listed.kind = "ok" THEN "listed" ELSE "list-failed")
                /\ UNCHANGED << url, requests >>
    /\ UNCHANGED << cur, nCalls, ledgerAtCall, args >>
    /\ ListStep

Return ==
    /\ pc = "done"
    /\ pc' = "idle"
    /\ url' = ""
    /\ jsonBody' = NotJSON
    /\ requests' = <<>>
    /\ resp' = NoResponse
    /\ retryResp' = NoResponse
    /\ err' = ""
    /\ paymentHeader' = AbsentString
    /\ paymentReq' = ZeroRequirement
    /\ paymentOption' = ZeroOption
    /\ resourceURL' = ""
    /\ paymentPayload' = NoPayload
    /\ result' = NoResult
    /\ returned' = NoResult
    /\ trace' = <<>>
    /\ UNCHANGED << outsideVars, clientVars, ledgerVars, cur, nextNonce, historyVars >>

Next ==
    \/ \E in \in ChatInputs : ChatCompletion(in)
    \/ \E in \in ChatPrompts : Chat(in)
    \/ \E in \in SystemPrompts : ChatWithSystem(in)
    \/ \E in \in ImageInputs : Generate(in)
    \/ \E c \in Clients : \E op \in ListOps(c) : ListCall(c, op)
    \/ \E r \in ListResponses : ListResponse(r)
    \/ \E r \in FirstResponses(cur) : FirstResponse(r)
    \/ RecoverChallenge
    \/ ParseChallenge
    \/ ExtractOption
    \/ \E env \in SignEnvs(nextNonce) : SignPayment(env)
    \/ SendRetry
    \/ \E r \in RetryResponses(cur) : RetryResponse(r)
    \/ Return

Spec == Init /\ [][Next]_vars

\* The sequential calls once more, for the claim about the two clients,
\* which runs the whole handshake twice wherever a call has ended.
SpecClients == Init /\ [][Next]_vars

\* A call that was started runs on: the client's own steps are sequential
\* code, and each httpClient.Do returns (with a response or, at the latest
\* when the client's timeout expires, with an error).
CallStep ==
    \/ \E r \in ListResponses : ListResponse(r)
    \/ \E r \in FirstResponses(cur) : FirstResponse(r)
    \/ RecoverChallenge
    \/ ParseChallenge
    \/ ExtractOption
    \/ \E env \in SignEnvs(nextNonce) : SignPayment(env)
    \/ SendRetry
    \/ \E r \in RetryResponses(cur) : RetryResponse(r)

SpecLive == Init /\ [][Next]_vars /\ WF_vars(CallStep)

\* The same program from before its clients are built.
NextNew ==
    \/ \E c \in Clients, in \in ClientInputs : NewClient(c, in)
    \/ \E k \in KeyParams : AddressFromKey(k)
    \/ Next

SpecNew == InitNew /\ [][NextNew]_vars

\* ----------------------------------------- concurrent calls on one client
\*
\* LLMClient has no mutex (client.go:32-39): handlePaymentAndRetry updates
\* c.sessionCalls and c.sessionTotalUSD with plain loads and stores, so calls
\* made from several goroutines race on them.  A goroutine waits in each of
\* its two httpClient.Do calls, and the others run meanwhile.

\* What the concurrent calls send: ChatCompletion with one message.
RaceURL == apiURL["llm"] \o Endpoint("llm")
RaceBody == JSONText([model |-> "openai/gpt-4o", messages |-> 1, max_tokens |-> 1024])

\* What the server answers to their first request.
RaceFirstResponses ==
    { TransportError,
      Response(StatusOK, AbsentString, GoodBody("llm")),
      Response(500, AbsentString, ErrorBody),
      Response(StatusPaymentRequired, AbsentString, ErrorBody) }
    \cup { Response(StatusPaymentRequired,
                    Base64Encode(JSONText([x402Version |-> 2, accepts |-> a])), ErrorBody) :
              a \in { <<OptPlain>>, <<OptHalf>>, <<OptNeg>>, <<>> } }

GoStep(g, position) == [goroutines EXCEPT ![g].pc = position]

\* The call on goroutine g ends with r.
GoEnd(g, r) == [goroutines EXCEPT ![g].pc = "returned", ![g].result = r]

\* ChatCompletion on goroutine g, up to the first httpClient.Do.
GoCall(g) ==
    /\ goroutines[g].pc = "idle"
    /\ nCalls < MaxCalls
    /\ nCalls' = nCalls + 1
    /\ goroutines' =
          [goroutines EXCEPT ![g] =
              IF URLParses(apiURL["llm"], Endpoint("llm"))
              THEN [GoIdle EXCEPT !.pc = "sent",
                                  !.requests = << FirstRequest(RaceURL, RaceBody) >>]
              ELSE [GoIdle EXCEPT !.pc = "returned",
                                  !.result = PlainError("failed to create request")]]
    /\ overlapped' = (overlapped \/ \E h \in Goroutines \ {g} : goroutines[h].pc # "idle")
    /\ UNCHANGED << clientVars, ledgerVars, pc, cur, url, jsonBody, requests, resp,
                    retryResp, err, paymentVars, result, returned, nextNonce, trace,
                    ledgerAtCall, settledPaid, settledUSD, args, updates,
                    walletVars >>

\* requestWithPayment and handlePaymentAndRetry on goroutine g, from the
\* return of the first Do with `r` to the retried Do: the status is tested,
\* the challenge parsed, the option extracted, the payload signed in the
\* environment env and the retried request sent.
GoFirstResponse(g, r, env) ==
    /\ goroutines[g].pc = "sent"
    /\ LET header == RecoverHeader(r)
           parsed == ParsePaymentRequired(header)
           details == ExtractPaymentDetails(parsed.req)
           option == details.option
           signing == /\ ~r.err
                      /\ r.status = StatusPaymentRequired
                      /\ header.enc # "absent"
                      /\ parsed.ok
                      /\ details.ok
           created == CreatePaymentPayload(privateKey["llm"], option.PayTo,
                          option.Amount, option.Network,
                          ResourceURLOf(parsed.req, RaceURL),
                          parsed.req.Resource.Description, option.MaxTimeoutSeconds,
                          option.Extra, parsed.req.Extensions, env)
       IN  /\ nextNonce' = IF signing /\ env.nonceOK THEN nextNonce + 1 ELSE nextNonce
           /\ goroutines' =
                 IF r.err THEN GoEnd(g, PlainError("request failed"))
                 ELSE IF r.status = StatusPaymentRequired
                 THEN IF header.enc = "absent" THEN GoEnd(g, NoChallengeError(r))
                      ELSE IF ~parsed.ok
                      THEN GoEnd(g, PaymentError("Failed to parse payment requirements"))
                      ELSE IF ~details.ok
                      THEN GoEnd(g, PaymentError("Failed to extract payment details"))
                      ELSE IF ~created.ok
                      THEN GoEnd(g, PaymentError("Failed to create payment"))
                      ELSE [goroutines EXCEPT
                               ![g].pc = "retried",
                               ![g].amount = option.Amount,
                               ![g].requests =
                                   Append(@, RetryRequest(RaceURL, RaceBody, created.header))]
                 ELSE IF r.status # StatusOK
                 THEN GoEnd(g, APIError(r.status, "API error", r.body))
                 ELSE IF ~DecodeInto(ChatResponseFields, r.body)
                 THEN GoEnd(g, PlainError("failed to decode response"))
                 ELSE GoEnd(g, Success(r.body))
    /\ UNCHANGED << clientVars, ledgerVars, pc, cur, url, jsonBody, requests, resp,
                    retryResp, err, paymentVars, result, returned, nCalls, trace,
                    ledgerAtCall, settledPaid, settledUSD, args, overlapped, updates,
                    walletVars >>

\* handlePaymentAndRetry on goroutine g after the retried Do returned `r`.
GoRetryResponse(g, r) ==
    /\ goroutines[g].pc = "retried"
    /\ IF ~r.err /\ r.status = StatusOK
       THEN /\ settledPaid' = [settledPaid EXCEPT !["llm"] = @ + 1]
            /\ settledUSD' = [settledUSD EXCEPT !["llm"] =
                  FloatAdd(@, USDOfMicro(BigIntSetString(goroutines[g].amount).digits))]
       ELSE UNCHANGED << settledPaid, settledUSD >>
    /\ IF r.err
       THEN /\ goroutines' = GoEnd(g, PlainError("retry request failed"))
            /\ UNCHANGED updates
       ELSE IF r.status = StatusPaymentRequired
       THEN /\ goroutines' =
                  GoEnd(g, PaymentError("Payment was rejected. Check your wallet balance."))
            /\ UNCHANGED updates
       ELSE IF r.status # StatusOK
       THEN /\ goroutines' = GoEnd(g, APIError(r.status, "API error after payment", r.body))
            /\ UNCHANGED updates
       ELSE IF ~DecodeInto(ChatResponseFields, r.body)
       THEN /\ goroutines' = GoEnd(g, PlainError("failed to decode response"))
            /\ UNCHANGED updates
       ELSE /\ goroutines' = [goroutines EXCEPT ![g].pc = "load-calls",
                                                ![g].result = Success(r.body)]
            /\ updates' = updates + 1
    /\ UNCHANGED << clientVars, ledgerVars, pc, cur, url, jsonBody, requests, resp,
                    retryResp, err, paymentVars, result, returned, nextNonce, nCalls, trace,
                    ledgerAtCall, args, overlapped, walletVars >>

GoFrame ==
    UNCHANGED << clientVars, pc, cur, url, jsonBody, requests, resp, retryResp, err,
                 paymentVars, result, returned, nextNonce, trace, historyVars, overlapped,
                 updates, walletVars >>

\* c.sessionCalls++ : the load.
LoadCalls(g) ==
    /\ goroutines[g].pc = "load-calls"
    /\ goroutines' = [goroutines EXCEPT ![g].pc = "store-calls",
                                        ![g].calls = sessionCalls["llm"]]
    /\ UNCHANGED ledgerVars
    /\ GoFrame

\* A store that writes the loaded count back unchanged.
StoreCallsSame(g) ==
    /\ goroutines[g].pc = "store-calls"
    /\ sessionCalls' = [sessionCalls EXCEPT !["llm"] = goroutines[g].calls]
    /\ goroutines' = GoStep(g, "returned")
    /\ UNCHANGED sessionTotalUSD
    /\ GoFrame

\* c.sessionCalls++ : the store; then the test of the amount string and of
\* Sscanf's result.
StoreCalls(g) ==
    /\ goroutines[g].pc = "store-calls"
    /\ sessionCalls' = [sessionCalls EXCEPT !["llm"] = TrackCalls(goroutines[g].calls)]
    /\ goroutines' =
          GoStep(g, IF goroutines[g].amount # <<>> /\ ScanFloat(goroutines[g].amount).ok
                    THEN "load-total" ELSE "returned")
    /\ UNCHANGED sessionTotalUSD
    /\ GoFrame

\* c.sessionTotalUSD += amountMicro / 1_000_000 : the load.
LoadTotal(g) ==
    /\ goroutines[g].pc = "load-total"
    /\ goroutines' = [goroutines EXCEPT ![g].pc = "store-total",
                                        ![g].total = sessionTotalUSD["llm"]]
    /\ UNCHANGED ledgerVars
    /\ GoFrame

\* c.sessionTotalUSD += amountMicro / 1_000_000 : the store.
StoreTotal(g) ==
    /\ goroutines[g].pc = "store-total"
    /\ sessionTotalUSD' = [sessionTotalUSD EXCEPT !["llm"] =
                              TrackTotal(goroutines[g].total, goroutines[g].amount)]
    /\ goroutines' = GoStep(g, "returned")
    /\ UNCHANGED sessionCalls
    /\ GoFrame

\* The call on goroutine g has returned; g may call again.
GoReturn(g) ==
    /\ goroutines[g].pc = "returned"
    /\ goroutines' = [goroutines EXCEPT ![g] = GoIdle]
    /\ UNCHANGED ledgerVars
    /\ GoFrame

NextRace ==
    \/ \E g \in Goroutines : GoCall(g)
    \/ \E g \in Goroutines, r \in RaceFirstResponses, env \in SignEnvs(nextNonce) :
          GoFirstResponse(g, r, env)
    \/ \E g \in Goroutines, r \in RetryResponses("llm") : GoRetryResponse(g, r)
    \/ \E g \in Goroutines : LoadCalls(g)
    \/ \E g \in Goroutines : StoreCalls(g)
    \/ \E g \in Goroutines : LoadTotal(g)
    \/ \E g \in Goroutines : StoreTotal(g)
    \/ \E g \in Goroutines : GoReturn(g)

SpecRace == Init /\ [][NextRace]_vars

\* ------------------------------------------------------ wallet operations

WalletFrame ==
    UNCHANGED << clientVars, ledgerVars, pc, cur, url, jsonBody, requests, resp,
                 retryResp, err, paymentVars, result, returned, nextNonce, trace, ledgerAtCall,
                 settledPaid, settledUSD, args, raceVars >>

\* A wallet operation returns: its result is recorded.
WalletReturns(r) ==
    /\ nCalls < MaxCalls
    /\ nCalls' = nCalls + 1
    /\ walletPrev' = walletResult
    /\ walletResult' = r
    /\ UNCHANGED environ
    /\ WalletFrame

\* GetOrCreateWallet()
GetOrCreate(gen) ==
    LET got == GetOrCreateWallet(environ, files, gen)
    IN  /\ files' = got.fs
        /\ WalletReturns([NoWalletResult EXCEPT !.op = "GetOrCreateWallet",
                              !.environ = environ, !.before = files, !.ok = got.ok,
                              !.wallet = got.wallet, !.created = got.created])

\* SaveWallet(privateKey)
Save(text, writable) ==
    /\ files' = SaveWallet(text, files, writable).fs
    /\ WalletReturns([NoWalletResult EXCEPT !.op = "SaveWallet", !.environ = environ,
                          !.before = files, !.saved = text,
                          !.ok = SaveWallet(text, files, writable).ok])

\* LoadWallet()
Load ==
    /\ UNCHANGED files
    /\ WalletReturns([NoWalletResult EXCEPT !.op = "LoadWallet", !.environ = environ,
                          !.before = files, !.key = LoadWallet(files)])

\* os.Unsetenv of both key variables by the program between two wallet
\* operations.
Unsetenv ==
    /\ environ # NoEnviron
    /\ environ' = NoEnviron
    /\ UNCHANGED << files, walletResult, walletPrev, nCalls >>
    /\ WalletFrame

\* The program starts with any of the sample environments and directories.
InitWallet ==
    /\ privateKey = [c \in Clients |-> NoKey]
    /\ apiURL = [c \in Clients |-> ""]
    /\ InitCall
    /\ environ \in KeyEnvirons
    /\ files \in WalletDirs
    /\ walletResult = NoWalletResult
    /\ walletPrev = NoWalletResult

NextWallet ==
    \/ \E gen \in Generated : GetOrCreate(gen)
    \/ \E text \in SavedTexts, writable \in BOOLEAN : Save(text, writable)
    \/ Load
    \/ Unsetenv

SpecWallet == InitWallet /\ [][NextWallet]_vars

\* ------------------------------------------------------------ properties

\* The call in progress, or the one that has just ended, goes through
\* requestWithPayment: a chat or an image call, not a list of models.
PaymentCall == args.op \in {"ChatCompletion", "Chat", "ChatWithSystem", "Generate"}

\* The number of occurrences and the first position of a step in the trace.
Count(seq, x) == Cardinality({i \in 1..Len(seq) : seq[i] = x})
Occurs(seq, x) == \E i \in 1..Len(seq) : seq[i] = x
Before(seq, a, b) ==
    \A j \in 1..Len(seq) : seq[j] = b => \E i \in 1..(j - 1) : seq[i] = a

IsStatus(r, status) == ~r.err /\ r.status = status
Answered(r) == r # NoResponse

\* The ledger of every client is what it was when the call started.
LedgerUnchanged ==
    /\ sessionCalls = ledgerAtCall.calls
    /\ sessionTotalUSD = ledgerAtCall.total

\* Only a signed run of digits reaches the ledger's Sscanf.
LedgerAmountIsInteger ==
    pc \in {"signed", "retried"} => BigIntSetString(paymentOption.Amount).ok

\* C1: a call issues at most two HTTP requests: the initial POST and, only
\* after a 402 whose challenge was parsed and signed, one retry.
C1_AtMostTwoRequests ==
    PaymentCall =>
        /\ Len(requests) <= 2
        /\ Len(requests) = 2 =>
              /\ IsStatus(resp, StatusPaymentRequired)
              /\ ParsePaymentRequired(RecoverHeader(resp)).ok
              /\ Count(trace, "signed") = 1
              /\ Count(trace, "retry") = 1
              /\ paymentPayload.enc = "b64"

C1_Witness == PaymentCall /\ pc = "done" /\ Len(requests) = 2 /\ cur = "llm"

\* C2: when the retried request is answered 402 too, the call ends with a
\* PaymentError, exactly one signing round took place and no third request
\* is issued.
C2_SecondRejectionIsFatal ==
    IsStatus(retryResp, StatusPaymentRequired) =>
        /\ pc = "done"
        /\ result.kind = "PaymentError"
        /\ Count(trace, "signed") = 1
        /\ Len(requests) = 2

C2_Witness ==
    /\ pc = "done"
    /\ IsStatus(retryResp, StatusPaymentRequired)
    /\ result = PaymentError("Payment was rejected. Check your wallet balance.")

\* C3 (as claimed): between calls, every client's call count equals the
\* number of its calls whose paid retry was answered 200, and its total the
\* sum of their amounts.
C3_LedgerEqualsSettled ==
    pc \in {"idle", "done"} =>
        \A c \in Clients :
            /\ sessionCalls[c] = settledPaid[c]
            /\ sessionTotalUSD[c] = settledUSD[c]

\* C4 (as claimed): a first response of 200 ends the call with the parsed
\* body returned, one request, no signing and the ledger unchanged.
C4_FreeSuccessReturnsBody ==
    (pc = "done" /\ IsStatus(resp, StatusOK)) =>
        /\ result = Success(resp.body)
        /\ Len(requests) = 1
        /\ ~Occurs(trace, "signed")
        /\ LedgerUnchanged

\* C4 (amended): a first response of 200 ends the call after one request,
\* with no signing and the ledger unchanged; the parsed body is returned
\* when the body decodes, and a decode error otherwise.
C4_FreeSuccessLeavesLedger ==
    PaymentCall =>
        /\ (pc = "done" /\ IsStatus(resp, StatusOK)) =>
               /\ result = IF DecodeInto(ResponseFields(cur), resp.body)
                           THEN Success(resp.body)
                           ELSE PlainError("failed to decode response")
               /\ Len(requests) = 1
               /\ ~Occurs(trace, "signed") /\ ~Occurs(trace, "sign-failed")
               /\ paymentPayload = NoPayload
               /\ LedgerUnchanged

C4_Witness ==
    /\ pc = "done"
    /\ IsStatus(resp, StatusOK)
    /\ result.kind = "ok"
    /\ ledgerAtCall.calls[cur] = 1
    /\ ledgerAtCall.total[cur] = USDOfMicro(S_200000)

\* The retried request of this call was answered 200: the spec's Settled
\* via a paid retry.
SettledPaid == IsStatus(retryResp, StatusOK)

\* C5: a call that does not reach a 200 on its retried request leaves the
\* ledger of every client as it was when the call started, and a retried
\* response other than 200 and 402 ends it with an APIError of that status.
C5_UnsettledLeavesLedger ==
    (pc # "idle" /\ ~SettledPaid) =>
        /\ LedgerUnchanged
        /\ (Answered(retryResp) /\ ~retryResp.err
                /\ retryResp.status # StatusPaymentRequired) =>
               (result.kind = "APIError" /\ result.status = retryResp.status)

C5_Witness ==
    /\ pc = "done"
    /\ IsStatus(retryResp, 500)
    /\ result.kind = "APIError"
    /\ sessionCalls[cur] = 1

\* C6 (as claimed): whenever the retried request is answered 200 the ledger
\* gains one call and the amount, and the parsed body is returned.
C6_RetrySuccessIsRecorded ==
    (pc = "done" /\ SettledPaid) =>
        /\ sessionCalls[cur] = ledgerAtCall.calls[cur] + 1
        /\ sessionTotalUSD[cur] = FloatAdd(ledgerAtCall.total[cur], AmountUSD(paymentOption))
        /\ result = Success(retryResp.body)

\* C7: no step ever decreases the call count or the total of any client.
C7_LedgerMonotone ==
    [][\A c \in Clients :
          /\ sessionCalls'[c] >= sessionCalls[c]
          /\ FloatLeq(sessionTotalUSD[c], sessionTotalUSD'[c])]_vars

\* Two calls were recorded, "200000" and then "+100000", and the total is
\* the float64 sum 0.2 + 0.1, which is above the float64 nearest to 0.3.
C7_Witness ==
    /\ pc = "done"
    /\ sessionCalls["llm"] = 2
    /\ paymentOption.Amount = S_plus
    /\ ledgerAtCall.total["llm"] = USDOfMicro(S_200000)
    /\ sessionTotalUSD["llm"] = FloatAdd(USDOfMicro(S_200000), USDOfMicro(S_100000))
    /\ sessionTotalUSD["llm"] # USDOfMicro(<< "3", "0", "0", "0", "0", "0" >>)
    /\ FloatLeq(USDOfMicro(<< "3", "0", "0", "0", "0", "0" >>), sessionTotalUSD["llm"])

\* C8: the retried request is the first request (POST, same URL, same body,
\* same Content-Type) with the PAYMENT-SIGNATURE header added, that header
\* being the base64 payload just built.
C8_RetryIsSameRequest ==
    PaymentCall =>
        /\ Len(requests) >= 2 =>
               /\ requests[1] = FirstRequest(apiURL[cur] \o Endpoint(cur), jsonBody)
               /\ requests[1].method = "POST"
               /\ requests[1].contentType = "application/json"
               /\ requests[1].paymentSignature = AbsentString
               /\ requests[2] = [requests[1] EXCEPT !.paymentSignature = paymentPayload]
               /\ paymentPayload.enc = "b64"

C8_Witness ==
    /\ PaymentCall
    /\ pc = "retried"
    /\ cur = "image"
    /\ Len(requests) = 2
    /\ requests[2].body = requests[1].body
    /\ requests[2].paymentSignature # AbsentString

\* What the payload in a PAYMENT-SIGNATURE header says it pays.
PayloadDoc(header) == header.text.doc

\* The option a 402 response asks to be paid, when it has one.
ChallengeOption(r) ==
    ExtractPaymentDetails(ParsePaymentRequired(RecoverHeader(r)).req)

\* C9: the steps of a call are ordered: 402, challenge recovered, parsed,
\* option extracted, signed, retried; and a retried request carries the
\* signed payload for the option of the challenge this call received.
C9_StepsAreOrdered ==
    PaymentCall =>
        /\ Before(trace, "request", "402")
        /\ Before(trace, "402", "challenge")
        /\ Before(trace, "challenge", "parsed")
        /\ Before(trace, "parsed", "extracted")
        /\ Before(trace, "extracted", "signed")
        /\ Before(trace, "signed", "retry")
        /\ Len(requests) = 2 =>
              /\ IsStatus(resp, StatusPaymentRequired)
              /\ ParsePaymentRequired(RecoverHeader(resp)).ok
              /\ ChallengeOption(resp).ok
              /\ err = ""
              /\ requests[2].paymentSignature.enc = "b64"
              /\ PayloadDoc(requests[2].paymentSignature).accepted.amount
                    = JStr(ChallengeOption(resp).option.Amount)
              /\ PayloadDoc(requests[2].paymentSignature).payload.authorization.to
                    = ChallengeOption(resp).option.PayTo
              /\ PayloadDoc(requests[2].paymentSignature).payload.signature.signer
                    = PubkeyToAddress(privateKey[cur])

C9_Witness ==
    /\ pc = "retried"
    /\ trace = <<"request", "402", "challenge", "parsed", "extracted", "signed", "retry">>
    /\ paymentOption.Amount = S_100000
    /\ paymentReq.Accepts[1].Amount = S_empty

\* The payment steps of this call failed: the challenge does not parse, has
\* no usable option, or CreatePaymentPayload returned an error.
PaymentStepFailed ==
    /\ IsStatus(resp, StatusPaymentRequired)
    /\ RecoverHeader(resp).enc # "absent"
    /\ \/ ~ParsePaymentRequired(RecoverHeader(resp)).ok
       \/ ~ChallengeOption(resp).ok
       \/ err # ""

\* CreatePaymentPayload for the current client, called with an extensions
\* map that holds the Go value v, when nonce generation and the signing
\* primitive succeed.
PayloadWith(v) ==
    CreatePaymentPayload(privateKey[cur], PayeeHex, S_100000, "eip155:8453",
        "https://res.example/chat", "Chat", 300, NilMap, MakeMap([note |-> v]),
        [now |-> 1700000000, nonceOK |-> TRUE, nonce |-> nextNonce, signOK |-> TRUE,
         recid |-> 0])

\* C10: when parsing, extraction, nonce generation, signing or payload
\* building fails, no retry is ever sent and the call ends with a
\* PaymentError after its single request.  Payload building fails, where a
\* call is about to sign, on an extensions map that encoding/json cannot
\* encode (a channel, a function, an infinite float64), and on no map of
\* strings.
C10_PaymentStepFailureIsFatal ==
    /\ PaymentStepFailed =>
          /\ Len(requests) = 1
          /\ ~Answered(retryResp)
          /\ pc \in {"challenge", "header", "parsed", "done"}
          /\ pc = "done" => result.kind = "PaymentError"
    /\ pc = "extracted" =>
          /\ \A v \in {GoChan, GoFunc, GoInf} :
                PayloadWith(v) = [ok |-> FALSE, err |-> "failed to marshal payload",
                                  header |-> NoPayload]
          /\ PayloadWith(JStr(<< "a" >>)).ok

C10_Witness ==
    /\ pc = "done"
    /\ err = "failed to generate nonce"
    /\ result = PaymentError("Failed to create payment")
    /\ Len(requests) = 1

\* C11: a first response whose status is neither 200 nor 402 ends the call
\* with an APIError carrying that status and the raw body, after the single
\* request and with no retried request.
C11_OtherStatusIsAPIError ==
    PaymentCall =>
        /\ (Answered(resp) /\ ~resp.err /\ resp.status \notin {StatusOK, StatusPaymentRequired}) =>
               /\ pc = "done"
               /\ result = [kind |-> "APIError", status |-> resp.status,
                            message |-> "API error", value |-> resp.body]
               /\ Len(requests) = 1
               /\ ~Answered(retryResp)
               /\ ~Occurs(trace, "retry")

C11_Witness ==
    /\ pc = "done"
    /\ IsStatus(resp, 500)
    /\ result.kind = "APIError"
    /\ result.status = 500
    /\ result.value = ErrorBody
    /\ cur = "image"

\* The first response is a 402 with no payment-required header whose JSON
\* body has the "x402" marker.
BodyChallenge(r) ==
    /\ IsStatus(r, StatusPaymentRequired)
    /\ r.header.enc = "absent"
    /\ r.body.isJSON
    /\ "x402" \in DOMAIN r.body.doc

\* The same requirement delivered in the payment-required header.
BodyAsHeader(r) == Base64Encode(r.body)

\* C12 (as claimed): when the challenge of a 402 comes in the body, and the
\* same requirement in the header would parse and yield an option, the call
\* recovers that requirement and reaches signing.
C12_BodyChallengeProceeds ==
    (/\ pc = "done"
     /\ BodyChallenge(resp)
     /\ ParsePaymentRequired(BodyAsHeader(resp)).ok
     /\ ExtractPaymentDetails(ParsePaymentRequired(BodyAsHeader(resp)).req).ok) =>
        /\ paymentReq = ParsePaymentRequired(BodyAsHeader(resp)).req
        /\ Occurs(trace, "parsed")
        /\ Occurs(trace, "extracted")

\* C13: on a 402 the payment-required header takes precedence: when it is
\* present the header value and the requirement parsed are those of the
\* header, whatever the body says; the body is the source only when the
\* header is absent.
C13_HeaderTakesPrecedence ==
    (IsStatus(resp, StatusPaymentRequired) /\ pc \notin {"sent", "challenge"}) =>
        /\ resp.header.enc # "absent" =>
              /\ paymentHeader = resp.header
              /\ Occurs(trace, "challenge")
              /\ Occurs(trace, "parsed") => paymentReq = ParsePaymentRequired(resp.header).req
              /\ Occurs(trace, "extracted") =>
                    paymentOption = ExtractPaymentDetails(ParsePaymentRequired(resp.header).req).option
        /\ paymentHeader # resp.header =>
              /\ resp.header.enc = "absent"
              /\ BodyChallenge(resp)
              /\ paymentHeader = RawString(resp.body)

C13_Witness ==
    /\ PaymentCall
    /\ pc = "retried"
    /\ resp.header = HeaderAndBody.header
    /\ resp.body = HeaderAndBody.body
    /\ paymentOption.Amount = S_100000
    /\ PayloadDoc(requests[2].paymentSignature).accepted.amount = JStr(S_100000)

\* The first response is a 402 with no payment-required header and no
\* "x402" marker in its body.
NoUsableChallenge(r) ==
    /\ IsStatus(r, StatusPaymentRequired)
    /\ r.header.enc = "absent"
    /\ ~(r.body.isJSON /\ "x402" \in DOMAIN r.body.doc)

\* C14 (as claimed): a first 402 with no usable challenge ends the call with
\* an APIError carrying the status code 402 and the raw body.
C14_NoChallengeIsAPIError ==
    (pc = "done" /\ NoUsableChallenge(resp)) =>
        /\ result.kind = "APIError"
        /\ result.status = StatusPaymentRequired
        /\ result.value = resp.body

\* C14 (amended): a first 402 with no usable challenge ends the call, after
\* its single request and without signing, with a PaymentError that carries
\* neither the status code nor the body.
C14_NoChallengeIsPaymentError ==
    (NoUsableChallenge(resp) /\ pc # "challenge") =>
        /\ pc = "done"
        /\ result = [kind |-> "PaymentError", status |-> 0,
                     message |-> "402 response but no payment requirements found",
                     value |-> NotJSON]
        /\ Len(requests) = 1
        /\ ~Occurs(trace, "signed")
        /\ LedgerUnchanged

C14_Witness ==
    /\ pc = "done"
    /\ NoUsableChallenge(resp)
    /\ resp.body.isJSON
    /\ result.kind = "PaymentError"
    /\ trace = <<"request", "402", "no-challenge">>

\* The call returned an error; the step at which it did.
Failed == pc = "done" /\ result.kind # "ok"
LastStep == trace[Len(trace)]

\* A chat or image call returned an error to the program.
CallFailed == PaymentCall /\ pc = "done" /\ returned.kind \notin {"ok", "content"}

\* C15 (as claimed): every error a chat or image call returns is a
\* ValidationError, a PaymentError or an APIError.
C15_EveryErrorIsTyped ==
    CallFailed => returned.kind \in {"ValidationError", "PaymentError", "APIError"}

\* C15 (amended): every error a chat or image call returns is a
\* ValidationError, a PaymentError, an APIError or an error of no exported
\* type; the last kind is returned exactly when the request body cannot be
\* encoded, when the request cannot be created (the API URL does not parse),
\* when either HTTP call fails in transport, and when a 200 body does not
\* decode.  An APIError is returned for a status other than 200 and 402 and,
\* by Chat and ChatWithSystem, for a decoded response without choices.
C15_ErrorKinds ==
    CallFailed =>
        /\ returned.kind \in {"ValidationError", "PaymentError", "APIError", "error"}
        /\ returned.kind = "error" <=>
               LastStep \in {"encode-failed", "request-failed", "transport-error",
                             "decode-failed"}
        /\ returned.kind = "ValidationError" <=> LastStep = "invalid"
        /\ returned.kind = "APIError" <=>
               \/ LastStep = "api-error"
               \/ /\ LastStep \in {"free", "settled"}
                  /\ args.op \in {"Chat", "ChatWithSystem"}
                  /\ Choices(result.value) = 0
                  /\ returned = APIError(0, "No choices in response", NotJSON)
        /\ LastStep = "request-failed" <=>
               /\ LastStep \notin {"invalid", "encode-failed"}
               /\ ~URLParses(apiURL[cur], Endpoint(cur))
        /\ LastStep = "request-failed" => requests = <<>>
        /\ LastStep = "transport-error" <=> (resp.err \/ retryResp.err)
        /\ LastStep = "decode-failed" <=>
               \/ /\ IsStatus(resp, StatusOK)
                  /\ ~DecodeInto(ResponseFields(cur), resp.body)
               \/ /\ IsStatus(retryResp, StatusOK)
                  /\ ~DecodeInto(ResponseFields(cur), retryResp.body)

\* A client built with an API URL that does not parse fails to create its
\* request, with an error of no exported type.
C15_Witness ==
    /\ CallFailed
    /\ returned = PlainError("failed to create request")
    /\ apiURL[cur] = BadHostURL
    /\ requests = <<>>

\* A paid image call failed on a 200 body that does not decode.
PaidDecodeFailure ==
    /\ CallFailed
    /\ returned.kind = "error"
    /\ IsStatus(retryResp, StatusOK)
    /\ LastStep = "decode-failed"
    /\ cur = "image"

\* Chat returned an APIError after the payment for its response was recorded.
NoChoicesAfterPayment ==
    /\ pc = "done"
    /\ args.op = "Chat"
    /\ LastStep = "settled"
    /\ returned = APIError(0, "No choices in response", NotJSON)
    /\ sessionCalls["llm"] = ledgerAtCall.calls["llm"] + 1

\* C16: a transport error on the first request or on the retried request
\* ends the call with an error; the failed request is not sent again, no
\* further request is issued and the ledger stays as it was.
C16_TransportErrorIsTerminal ==
    PaymentCall =>
        /\ resp.err =>
              /\ pc = "done"
              /\ result = [kind |-> "error", status |-> 0, message |-> "request failed",
                           value |-> NotJSON]
              /\ Len(requests) = 1
              /\ ~Answered(retryResp)
              /\ LedgerUnchanged
        /\ retryResp.err =>
              /\ pc = "done"
              /\ result = [kind |-> "error", status |-> 0, message |-> "retry request failed",
                           value |-> NotJSON]
              /\ Len(requests) = 2
              /\ Count(trace, "retry") = 1
              /\ Count(trace, "signed") = 1
              /\ LedgerUnchanged

C16_Witness ==
    /\ pc = "done"
    /\ retryResp.err
    /\ IsStatus(resp, StatusPaymentRequired)
    /\ LastStep = "transport-error"
    /\ sessionCalls[cur] = 1

\* The places a constructor looks for the key, in its order of preference,
\* and the key texts that are 64 hex digits of a secp256k1 key, with or
\* without "0x".
KeySources(a) ==
    IF a.op = "NewLLMClient"
    THEN << a.in.privateKey, a.in.environ.BASE_CHAIN_WALLET_KEY >>
    ELSE << a.in.privateKey, a.in.environ.BLOCKRUN_WALLET_KEY,
            a.in.environ.BASE_CHAIN_WALLET_KEY >>

ValidKeyTexts == { KeyText(p, h) : p \in {"", "0x"}, h \in {HexA, HexB} }

\* No source supplies a key, or the first one that does supplies a bad one.
MalformedKey(a) ==
    LET supplied == {i \in DOMAIN KeySources(a) : ~IsEmptyText(KeySources(a)[i])}
    IN  \/ supplied = {}
        \/ \E i \in supplied :
              /\ \A j \in supplied : i <= j
              /\ KeySources(a)[i] \notin ValidKeyTexts

MalformedInput ==
    \/ args.op \in {"NewLLMClient", "NewImageClient"} /\ MalformedKey(args)
    \/ args.op = "ChatCompletion" /\ (args.in.model = "" \/ args.in.messages = 0)

\* C17: a constructor given no key or a bad key, and ChatCompletion given an
\* empty model or no messages, return a ValidationError at once: no client
\* is built, no HTTP request is issued and the ledger is unchanged.
C17_MalformedInputIsRejected ==
    (pc # "idle" /\ MalformedInput) =>
        /\ pc = "done"
        /\ result.kind = "ValidationError"
        /\ result.message =
              IF args.op # "ChatCompletion" THEN "privateKey"
              ELSE IF args.in.model = "" THEN "model" ELSE "messages"
        /\ requests = <<>>
        /\ resp = NoResponse
        /\ Len(trace) = 1
        /\ LedgerUnchanged
        /\ args.op # "ChatCompletion" => privateKey[cur] = NoKey

C17_Witness ==
    /\ pc = "done"
    /\ args.op = "NewImageClient"
    /\ sessionCalls["llm"] = 1
    /\ args.in.privateKey = KeyText("", "invalid-key")
    /\ args.in.environ.BASE_CHAIN_WALLET_KEY = KeyText("", HexA)
    /\ result = ValidationError("privateKey")
    /\ requests = <<>>

\* The authorization of the payload built by this call.
Authorization == PayloadDoc(paymentPayload).payload.authorization

\* C18: in every payload built for an option with maxTimeoutSeconds >= 0,
\* validBefore - validAfter = maxTimeoutSeconds + 600, validAfter being
\* now - 600 and validBefore now + maxTimeoutSeconds for one clock reading;
\* the signed message states the same two instants.
C18_ValidityWindow ==
    (paymentPayload.enc = "b64" /\ paymentOption.MaxTimeoutSeconds >= 0) =>
        /\ IsDigits(Authorization.validAfter.s)
        /\ IsDigits(Authorization.validBefore.s)
        /\ DecVal(Authorization.validBefore.s) - DecVal(Authorization.validAfter.s)
              = paymentOption.MaxTimeoutSeconds + ClockSkew
        /\ \E now \in Times :
              /\ DecVal(Authorization.validAfter.s) = now - ClockSkew
              /\ DecVal(Authorization.validBefore.s) = now + paymentOption.MaxTimeoutSeconds
        /\ PayloadDoc(paymentPayload).payload.signature.message.validAfter
              = Authorization.validAfter.s
        /\ PayloadDoc(paymentPayload).payload.signature.message.validBefore
              = Authorization.validBefore.s

C18_Witness ==
    /\ pc = "retried"
    /\ paymentOption.MaxTimeoutSeconds = 0
    /\ Authorization.validAfter = JStr(<<"1", "6", "9", "9", "9", "9", "9", "4", "0", "1">>)
    /\ Authorization.validBefore = JStr(<<"1", "7", "0", "0", "0", "0", "0", "0", "0", "1">>)

\* The challenge of the first response parses and offers no option.
EmptyChallenge ==
    /\ IsStatus(resp, StatusPaymentRequired)
    /\ ParsePaymentRequired(RecoverHeader(resp)).ok
    /\ Len(ParsePaymentRequired(RecoverHeader(resp)).req.Accepts) = 0

\* C19: a challenge with an empty accepted list yields no option: once it
\* is parsed the call ends with a PaymentError, with nothing signed and no
\* retry sent; and an option that is extracted is never the zero value.
C19_EmptyAcceptsIsPaymentError ==
    /\ EmptyChallenge =>
          /\ ~ChallengeOption(resp).ok
          /\ paymentOption = ZeroOption
          /\ paymentPayload = NoPayload
          /\ Len(requests) = 1
          /\ ~Occurs(trace, "extracted") /\ ~Occurs(trace, "signed")
          /\ pc \in {"challenge", "header", "parsed", "done"}
          /\ pc = "done" =>
                /\ result = [kind |-> "PaymentError", status |-> 0,
                             message |-> "Failed to extract payment details",
                             value |-> NotJSON]
                /\ LedgerUnchanged
    /\ Occurs(trace, "extracted") =>
          /\ paymentOption # ZeroOption
          /\ paymentOption.Amount # <<>>
          /\ Len(paymentReq.Accepts) > 0

C19_Witness ==
    /\ pc = "done"
    /\ EmptyChallenge
    /\ paymentReq.Accepts = <<>>
    /\ paymentReq.X402Version = 2
    /\ LastStep = "extract-failed"
    /\ result.kind = "PaymentError"

\* The payload a server decodes from the PAYMENT-SIGNATURE header of the
\* retried request.
Decoded == Base64Decode(requests[2].paymentSignature)

\* The amount the first option of the challenge resolves to: its amount or,
\* when that is empty, extra["maxAmountRequired"].
ResolvedAmount ==
    LET first == ParsePaymentRequired(RecoverHeader(resp)).req.Accepts[1]
    IN  IF first.Amount # <<>> THEN first.Amount
        ELSE MapString(first.Extra, "maxAmountRequired").s

\* C20: the PAYMENT-SIGNATURE header of the retried request decodes to a
\* payload of x402Version 2 whose accepted.amount and authorization.value
\* are the challenge's resolved amount, whose authorization.to is the first
\* option's payTo and whose authorization.from is the address of the
\* client's own key.
C20_PayloadMatchesChallenge ==
    PaymentCall =>
        /\ Len(requests) = 2 =>
               /\ Decoded.ok /\ Decoded.text.isJSON
               /\ Decoded.text.doc.x402Version = 2
               /\ Decoded.text.doc.accepted.amount = JStr(ResolvedAmount)
               /\ Decoded.text.doc.payload.authorization.value = JStr(ResolvedAmount)
               /\ Decoded.text.doc.payload.authorization.to
                     = ParsePaymentRequired(RecoverHeader(resp)).req.Accepts[1].PayTo
               /\ Decoded.text.doc.payload.authorization.from
                     = (IF privateKey[cur] = KeyA THEN AddressA ELSE AddressB)
               /\ Decoded.text.doc.payload.authorization.from
                     # Decoded.text.doc.payload.authorization.to

C20_Witness ==
    /\ pc = "retried"
    /\ cur = "image"
    /\ paymentReq.Accepts[1].Amount = <<>>
    /\ Decoded.text.doc.accepted.amount = JStr(S_100000)
    /\ Decoded.text.doc.payload.authorization.value = JStr(S_100000)
    /\ Decoded.text.doc.payload.authorization.to = PayeeHex
    /\ Decoded.text.doc.payload.authorization.from = AddressB

\* The requirement this call parsed, encoded (JSON, then base64) and parsed
\* again.
ParsedAgain ==
    ParsePaymentRequired(Base64Encode(JSONText(MarshalRequirement(paymentReq))))

\* C21 (as claimed): encoding a PaymentRequirement and parsing it with
\* ParsePaymentRequired returns an equal PaymentRequirement, whatever its
\* extensions and extra maps.
C21_RoundTrip ==
    Occurs(trace, "parsed") =>
        /\ ParsedAgain.ok
        /\ ParsedAgain.req = paymentReq

\* The round trip does hold of every requirement whose maps are nil or hold
\* at least one key.
NoEmptyMap(req) ==
    /\ req.Extensions.isNil \/ DOMAIN req.Extensions.kv # {}
    /\ \A i \in 1..Len(req.Accepts) :
          req.Accepts[i].Extra.isNil \/ DOMAIN req.Accepts[i].Extra.kv # {}

RoundTripUnlessEmptyMap ==
    (Occurs(trace, "parsed") /\ NoEmptyMap(paymentReq)) =>
        (ParsedAgain.ok /\ ParsedAgain.req = paymentReq)

\* The key text with the "0x" prefix added or removed.
FlipPrefix(k) == KeyText(IF k.prefix = "" THEN "0x" ELSE "", k.rest)

\* The address a call on a key text has just returned: the built client's,
\* the one GetAddressFromKey returned, or none.
ReturnedAddress ==
    IF result.kind = "client" THEN PubkeyToAddress(privateKey[cur])
    ELSE IF result.kind = "address" THEN result.message
    ELSE ""

\* C22: for a key parameter of 64 hex digits, with or without "0x", the
\* three operations return the address of those digits, the same for both
\* spellings and for each other; digits that are no curve scalar are refused
\* by all three, in both spellings.
C22_AddressIgnoresPrefix ==
    (/\ pc = "done"
     /\ args.op \in {"NewLLMClient", "NewImageClient", "GetAddressFromKey"}
     /\ args.in.privateKey.rest \in {HexA, HexB, HexZero}) =>
        LET k == args.in.privateKey
            expected == IF k.rest = HexA THEN AddressA
                        ELSE IF k.rest = HexB THEN AddressB ELSE ""
        IN  /\ ReturnedAddress = expected
            /\ \A q \in {k, FlipPrefix(k)} :
                  /\ GetAddressFromKey(q).address = expected
                  /\ GetAddressFromKey(q).ok = (expected # "")
                  /\ \A in \in ClientInputs :
                        /\ NewLLMClient(q, in.opts, in.environ).address = expected
                        /\ NewImageClient(q, in.opts, in.environ).address = expected

C22_Witness ==
    /\ pc = "done"
    /\ args.op = "NewImageClient"
    /\ args.in.privateKey = KeyText("0x", HexA)
    /\ privateKey["llm"] = KeyA
    /\ privateKey["image"] = KeyA
    /\ ReturnedAddress = AddressA

\* The private keys of the clients, as scalars and as the texts they were
\* given in.
Secrets ==
    {privateKey[c] : c \in Clients} \cup {KeyA, KeyB, HexA, HexB}
    \cup {"0x" \o HexA, "0x" \o HexB}

\* The strings of a request body and of a payment payload that the client
\* fills in.
BodyStrings(body) ==
    IF ~body.isJSON THEN {}
    ELSE IF "prompt" \in DOMAIN body.doc
         THEN {body.doc.prompt, body.doc.model, body.doc.size}
         ELSE {body.doc.model}

\* The remaining fields of the payload (amounts, validity bounds, token name
\* and version, extra, extensions) are texts copied from the challenge or
\* formatted from the clock: none is computed from the key.
PayloadStrings(header) ==
    IF header.enc # "b64" THEN {}
    ELSE LET d == header.text.doc IN
         {d.resource.url, d.resource.description, d.resource.mimeType,
          d.accepted.scheme, d.accepted.network, d.accepted.asset, d.accepted.payTo,
          d.payload.signature.signer, d.payload.signature.message.from,
          d.payload.signature.message.to,
          d.payload.signature.domain.verifyingContract,
          d.payload.authorization.from, d.payload.authorization.to}

RequestStrings(r) ==
    {r.method, r.url, r.contentType} \cup BodyStrings(r.body)
    \cup PayloadStrings(r.paymentSignature)

\* C23: no private key, as scalar or as text, is among the strings of any
\* request sent (URL, headers, body, payment payload) or is the message of
\* an error returned; the payload names the signer by its derived address.
C23_KeyStaysLocal ==
    /\ \A i \in 1..Len(requests) : RequestStrings(requests[i]) \cap Secrets = {}
    /\ PayloadStrings(paymentPayload) \cap Secrets = {}
    /\ result.kind \notin {"client"} => result.message \notin Secrets
    /\ err \notin Secrets
    /\ (PaymentCall /\ Len(requests) = 2) =>
          /\ PayloadDoc(requests[2].paymentSignature).payload.signature.signer
                = (IF privateKey[cur] = KeyA THEN AddressA ELSE AddressB)
          /\ PayloadDoc(requests[2].paymentSignature).payload.authorization.from
                = (IF privateKey[cur] = KeyA THEN AddressA ELSE AddressB)

C23_Witness ==
    /\ PaymentCall
    /\ pc = "done"
    /\ Len(requests) = 2
    /\ args.op = "Generate"
    /\ privateKey["image"] = KeyB
    /\ result.kind = "PaymentError"
    /\ AddressB \in PayloadStrings(requests[2].paymentSignature)

\* No concurrent call is in progress.
Quiet == \A g \in Goroutines : goroutines[g].pc = "idle"

\* C24: after calls that ran strictly one after the other, the call count is
\* never below the number of paid retries that settled.
C24_SequentialCountsEverySettledCall ==
    (Quiet /\ ~overlapped) => sessionCalls["llm"] >= settledPaid["llm"]

\* Two calls settled paid retries concurrently and one update of the
\* count was lost.
C24_Witness ==
    /\ Quiet
    /\ overlapped
    /\ updates = 2
    /\ settledPaid["llm"] = 2
    /\ sessionCalls["llm"] = 1

\* Two concurrent calls both updated the total and one amount was lost.
LostTotal ==
    /\ Quiet
    /\ updates = 2
    /\ sessionCalls["llm"] = 2
    /\ sessionTotalUSD["llm"] # settledUSD["llm"]
    /\ FloatLeq(sessionTotalUSD["llm"], settledUSD["llm"])

\* After calls that ran strictly one after the other, every update begun is
\* in the ledger; with concurrent calls the ledger never shows more than was
\* begun, and at least one update when any was made.
SequentialUpdatesAreKept ==
    /\ (Quiet /\ ~overlapped) => sessionCalls["llm"] = updates
    /\ (Quiet /\ ~overlapped /\ updates = settledPaid["llm"]) =>
          sessionTotalUSD["llm"] = settledUSD["llm"]
    /\ sessionCalls["llm"] <= updates
    /\ (Quiet /\ updates > 0) => sessionCalls["llm"] >= 1

\* The key sources of a GetOrCreateWallet call in priority order, as they
\* were when it was called: the two environment variables, then the key in
\* .session and the key in wallet.key (file contents without the white space
\* around them; an unreadable file holds no key).
KeyInFile(f) == IF f.exists THEN f.key ELSE NoText

Sources(r) ==
    << r.environ.BLOCKRUN_WALLET_KEY, r.environ.BASE_CHAIN_WALLET_KEY,
       KeyInFile(r.before.session), KeyInFile(r.before.legacy) >>

Found(r) == {i \in 1..4 : ~IsEmptyText(Sources(r)[i])}

FirstSource(r) == Sources(r)[CHOOSE i \in Found(r) : \A j \in Found(r) : i <= j]

\* C25: GetOrCreateWallet returns the first non-empty source in the order
\* BLOCKRUN_WALLET_KEY, BASE_CHAIN_WALLET_KEY, .session, wallet.key, with
\* IsNew false and no file written, and fails without looking further when
\* that source is no key; only when all four are empty does it create a
\* wallet, save it in .session and return it with IsNew true.  A key from the
\* environment leaves the files as they were.
C25_WalletPriority ==
    LET r == walletResult IN
    r.op = "GetOrCreateWallet" =>
        /\ Found(r) # {} =>
              /\ ~r.created
              /\ files = r.before
              /\ r.ok <=> FirstSource(r).rest \in {HexA, HexB}
              /\ r.ok => /\ r.wallet.PrivateKey = FirstSource(r)
                         /\ ~r.wallet.IsNew
        /\ Found(r) = {} =>
              /\ r.ok => /\ r.created
                         /\ r.wallet.IsNew
                         /\ r.wallet.PrivateKey.prefix = "0x"
                         /\ files = [r.before EXCEPT
                                       !.session = Padded(r.wallet.PrivateKey, FALSE)]
              /\ ~r.ok => files = r.before
        /\ r.ok => (r.wallet.IsNew <=> r.created)
        /\ (1 \in Found(r) \/ 2 \in Found(r)) => files = r.before

\* With no key in the environment and only white space in .session, the key
\* of wallet.key was returned.
C25_Witness ==
    /\ walletResult.op = "GetOrCreateWallet"
    /\ Found(walletResult) = {4}
    /\ walletResult.before.session = Padded(NoText, TRUE)
    /\ walletResult.ok
    /\ walletResult.wallet = WalletInfo(KeyText("0x", HexB), AddressB, FALSE)

\* With nothing to find, a wallet was created and saved.
WalletCreated ==
    /\ walletResult.op = "GetOrCreateWallet"
    /\ Found(walletResult) = {}
    /\ walletResult.ok
    /\ walletResult.wallet.IsNew
    /\ files.session = Padded(KeyText("0x", HexB), FALSE)

\* The key of BLOCKRUN_WALLET_KEY was returned although every other source
\* held a key.
EnvironmentFirst ==
    /\ walletResult.op = "GetOrCreateWallet"
    /\ Found(walletResult) = {1, 2, 3, 4}
    /\ walletResult.wallet.PrivateKey = KeyText("0x", HexB)

\* A key as SaveWallet is given it by GetOrCreateWallet and by the tests:
\* not empty and with no white space around it.
IsBareKey(text) == ~text.space /\ ~IsEmptyText(text.key)

\* C26: LoadWallet right after a successful SaveWallet of a key returns that
\* key unchanged; LoadWallet in a directory with neither wallet file returns
\* the empty string; both without error.  GetOrCreateWallet right after a
\* GetOrCreateWallet that created a wallet, with no key in the environment,
\* returns the same key with IsNew false.
C26_SaveLoadRoundTrip ==
    /\ (/\ walletPrev.op = "SaveWallet"
        /\ walletPrev.ok
        /\ IsBareKey(walletPrev.saved)
        /\ walletResult.op = "LoadWallet")
          => /\ walletResult.ok
             /\ Padded(walletResult.key, FALSE) = walletPrev.saved
    /\ (walletResult.op = "LoadWallet" /\ walletResult.before = NoFiles)
          => walletResult.ok /\ walletResult.key = NoText
    /\ (/\ walletPrev.op = "GetOrCreateWallet"
        /\ walletPrev.ok
        /\ walletPrev.wallet.IsNew
        /\ walletResult.op = "GetOrCreateWallet"
        /\ Found(walletResult) \cap {1, 2} = {})
          => /\ walletResult.ok
             /\ walletResult.wallet.PrivateKey = walletPrev.wallet.PrivateKey
             /\ walletResult.wallet.Address = walletPrev.wallet.Address
             /\ ~walletResult.wallet.IsNew

\* A key was saved over another one while wallet.key held a third, and
\* LoadWallet returned the saved key.
C26_Witness ==
    /\ walletPrev.op = "SaveWallet"
    /\ walletPrev.ok
    /\ walletPrev.saved = Padded(KeyText("0x", HexA), FALSE)
    /\ walletPrev.before.session = Padded(KeyText("", "invalid-key"), FALSE)
    /\ walletPrev.before.legacy = Padded(KeyText("0x", HexB), FALSE)
    /\ walletResult.op = "LoadWallet"
    /\ walletResult.key = KeyText("0x", HexA)

\* A wallet was created and the next GetOrCreateWallet found it.
CreatedThenFound ==
    /\ walletPrev.op = "GetOrCreateWallet"
    /\ walletPrev.wallet.IsNew
    /\ walletResult.op = "GetOrCreateWallet"
    /\ walletResult.wallet = [walletPrev.wallet EXCEPT !.IsNew = FALSE]

\* LoadWallet found no file at all.
LoadedNothing ==
    /\ walletResult.op = "LoadWallet"
    /\ walletResult.before = NoFiles
    /\ walletResult.key = NoText

\* A text saved with white space around it comes back without it.
SavedTextComesBackTrimmed ==
    /\ walletPrev.op = "SaveWallet"
    /\ walletPrev.ok
    /\ walletPrev.saved = Padded(KeyText("", HexB), TRUE)
    /\ walletResult.op = "LoadWallet"
    /\ walletResult.key = KeyText("", HexB)

\* The positions of a call in the order of the code.
Rank(position) ==
    CASE position = "idle" -> 0
      [] position = "sent" -> 1
      [] position = "listing" -> 1
      [] position = "listing-second" -> 2
      [] position = "challenge" -> 2
      [] position = "header" -> 3
      [] position = "parsed" -> 4
      [] position = "extracted" -> 5
      [] position = "signed" -> 6
      [] position = "retried" -> 7
      [] position = "done" -> 8

\* The steps that end a call, by outcome.
SettledSteps == {"free", "settled", "listed"}
RejectedSteps == {"rejected"}
FailedSteps ==
    {"invalid", "encode-failed", "request-failed", "transport-error", "api-error",
     "decode-failed", "no-challenge", "parse-failed", "extract-failed", "sign-failed",
     "get-failed", "list-failed"}
TerminalSteps == SettledSteps \cup RejectedSteps \cup FailedSteps

InCall == pc \notin {"idle", "done"}

\* A call that has returned has exactly one terminal step, its last, and a
\* result; a call in progress has neither.
TerminalOnce ==
    /\ Cardinality({i \in 1..Len(trace) : trace[i] \in TerminalSteps})
          = (IF pc = "done" THEN 1 ELSE 0)
    /\ pc = "done" => trace[Len(trace)] \in TerminalSteps
    /\ pc = "done" <=> result.kind # "none"

\* A step moves the call to a later position, no position comes twice in a
\* call, and the only step from a returned call is the caller's return to
\* idle, with the call's state cleared.
Forward ==
    /\ pc' # pc => \/ Rank(pc') > Rank(pc)
                   \/ pc = "done" /\ pc' = "idle" /\ requests' = <<>> /\ trace' = <<>>
    /\ pc = "done" => (result' = result \/ pc' = "idle")
    /\ Len(trace') > Len(trace) => Rank(pc') > Rank(pc)

\* C27: a call that returns has reached exactly one terminal outcome; the
\* handshake only moves forward (sent, challenge, signed, retried), nothing
\* follows a terminal outcome within the call; and when every HTTP call
\* returns, a call that was started terminates.
C27_ForwardAndTerminates ==
    /\ []TerminalOnce
    /\ [][Forward]_vars
    /\ (InCall ~> pc = "done")

C27_Witness ==
    /\ pc = "done"
    /\ Len(trace) = 8
    /\ trace[1] = "request"
    /\ trace[7] = "retry"
    /\ trace[8] = "rejected"

\* The options the challenge of the first response offers, in order.
Offered == ParsePaymentRequired(RecoverHeader(resp)).req.Accepts

\* The challenge parses, offers at least one option, and the call is past
\* the parsing step.
OptionsOffered ==
    /\ IsStatus(resp, StatusPaymentRequired)
    /\ ParsePaymentRequired(RecoverHeader(resp)).ok
    /\ Len(Offered) >= 1
    /\ Occurs(trace, "parsed")

\* The first option has neither an amount nor a legacy amount.
FirstHasNoAmount ==
    /\ Offered[1].Amount = <<>>
    /\ ~MapString(Offered[1].Extra, "maxAmountRequired").ok

\* C28: the option paid is the first one offered, whatever follows it: once
\* extracted, the option held is the first (with its amount resolved) and the
\* retried request's payload carries its network, amount, payee and timeout;
\* when the first option has no
\* resolvable amount nothing is extracted, signed or retried, and the call
\* ends with a PaymentError even though a later option could be paid.
C28_FirstOptionOnly ==
    OptionsOffered =>
        /\ Occurs(trace, "extracted") =>
              /\ ~FirstHasNoAmount
              /\ paymentOption = [Offered[1] EXCEPT !.Amount = ResolvedAmount]
        /\ Len(requests) = 2 =>
              /\ LET paid == PayloadDoc(requests[2].paymentSignature) IN
                    /\ paid.accepted.network = Offered[1].Network
                    /\ paid.accepted.amount = JStr(ResolvedAmount)
                    /\ paid.accepted.payTo = Offered[1].PayTo
                    /\ paid.accepted.maxTimeoutSeconds = Offered[1].MaxTimeoutSeconds
                    /\ paid.payload.authorization.to = Offered[1].PayTo
                    /\ paid.payload.authorization.value = JStr(ResolvedAmount)
        /\ FirstHasNoAmount =>
              /\ pc \in {"parsed", "done"}
              /\ paymentOption = ZeroOption
              /\ paymentPayload = NoPayload
              /\ Len(requests) = 1
              /\ pc = "done" => result.kind = "PaymentError" /\ LastStep = "extract-failed"

\* Two options were offered and the first, the cheaper one, was paid.
C28_Witness ==
    /\ PaymentCall
    /\ pc = "done"
    /\ Len(Offered) = 2
    /\ Offered[1].Amount = S_100000
    /\ Offered[2].Amount = S_200000
    /\ result.kind = "ok"
    /\ PayloadDoc(requests[2].paymentSignature).accepted.amount = JStr(S_100000)

\* The first option had no amount, the second had one, and the call failed.
NoFallThrough ==
    /\ pc = "done"
    /\ Len(Offered) = 2
    /\ FirstHasNoAmount
    /\ Offered[2].Amount = S_200000
    /\ result.kind = "PaymentError"
    /\ Len(requests) = 1

\* C29: the amount of the option paid is the first option's amount field
\* when that is not empty, else its extra["maxAmountRequired"]; with neither
\* the call ends with a PaymentError after its one request.  That amount is
\* the value of the signed message, the amount and the authorized value of
\* the payload sent, and what a recorded call adds to the ledger total.
C29_AmountResolution ==
    OptionsOffered =>
        /\ Occurs(trace, "extracted") =>
              /\ Offered[1].Amount # <<>> => paymentOption.Amount = Offered[1].Amount
              /\ Offered[1].Amount = <<>> =>
                    /\ MapString(Offered[1].Extra, "maxAmountRequired").ok
                    /\ paymentOption.Amount
                          = MapString(Offered[1].Extra, "maxAmountRequired").s
              /\ paymentOption.Amount # <<>>
        /\ (FirstHasNoAmount /\ pc = "done") =>
              /\ result.kind = "PaymentError"
              /\ ~Occurs(trace, "signed")
              /\ ~Occurs(trace, "retry")
              /\ Len(requests) = 1
        /\ Len(requests) = 2 =>
              LET paid == PayloadDoc(requests[2].paymentSignature) IN
              /\ paid.payload.signature.message.value =
                    BigIntString(BigIntSetString(paymentOption.Amount))
              /\ paid.accepted.amount = JStr(paymentOption.Amount)
              /\ paid.payload.authorization.value = JStr(paymentOption.Amount)
        /\ (pc = "done" /\ LastStep = "settled") =>
              /\ sessionCalls[cur] = ledgerAtCall.calls[cur] + 1
              /\ sessionTotalUSD[cur] =
                    FloatAdd(ledgerAtCall.total[cur],
                             USDOfMicro(PayloadDoc(requests[2].paymentSignature)
                                            .payload.signature.message.value))

\* An option with both an amount and a legacy amount was paid at its amount
\* and recorded.
C29_Witness ==
    /\ PaymentCall
    /\ pc = "done"
    /\ LastStep = "settled"
    /\ Offered[1].Amount = S_200000
    /\ MapString(Offered[1].Extra, "maxAmountRequired").s = S_100000
    /\ PayloadDoc(requests[2].paymentSignature).accepted.amount = JStr(S_200000)
    /\ sessionTotalUSD[cur] = FloatAdd(ledgerAtCall.total[cur], USDOfMicro(S_200000))

\* An option with only a legacy amount was paid at that amount and recorded.
LegacyAmountPaid ==
    /\ pc = "done"
    /\ LastStep = "settled"
    /\ Offered[1].Amount = <<>>
    /\ PayloadDoc(requests[2].paymentSignature).payload.authorization.value = JStr(S_100000)
    /\ sessionTotalUSD[cur] = FloatAdd(ledgerAtCall.total[cur], USDOfMicro(S_100000))

\* A legacy amount that is a JSON number is not used: the call fails.
NumericLegacyAmountFails ==
    /\ pc = "done"
    /\ OptionsOffered
    /\ RecoverHeader(resp).text.doc.accepts[1] = OptLegacyNum
    /\ result.kind = "PaymentError"
    /\ LastStep = "extract-failed"

\* The string denotes a non-negative integer in base 10: digits, after an
\* optional "+".
NonNegativeInteger(a) ==
    \/ IsDigits(a)
    \/ Len(a) > 1 /\ a[1] = "+" /\ IsDigits(Tail(a))

\* Amount strings, and CreatePaymentPayload applied to one of them for the
\* current client when nonce generation and the signing primitive succeed.
AmountStrings ==
    {S_empty, S_frac, S_word, S_neg, S_plus, S_100000, S_200000, S_huge, S_hex}

\* The string denotes a number that fits the uint256 field value: fewer
\* digits than 2^256 has once leading zeros are dropped, or as many and a
\* smaller number.
FitsUint256(a) ==
    LET d == StripZeros(IF a[1] = "+" THEN Tail(a) ELSE a)
    IN  \/ Len(d) < Len(TwoTo256)
        \/ Len(d) = Len(TwoTo256) /\ DigitsLess(d, TwoTo256)

PayloadFor(a) ==
    CreatePaymentPayload(privateKey[cur], PayeeHex, a, "eip155:8453",
        "https://res.example/chat", "Chat", 300, NilMap, NilMap,
        [now |-> 1700000000, nonceOK |-> TRUE, nonce |-> nextNonce, signOK |-> TRUE,
         recid |-> 0])

\* C30: CreatePaymentPayload, called where a call is about to sign, returns
\* an error and no payload for every amount string that is not a
\* non-negative base-10 integer (empty, with a decimal point, not made of
\* digits, negative), and a payload for the ones that are and are below
\* 2^256; in a call, such an amount ends the call at the signing step with a
\* PaymentError, no payload and no retried request.
C30_BadAmountIsNotSigned ==
    /\ pc = "extracted" =>
          \A a \in AmountStrings :
              LET made == PayloadFor(a) IN
              /\ made.ok <=> (NonNegativeInteger(a) /\ FitsUint256(a))
              /\ ~made.ok => made.header = NoPayload /\ made.err # ""
    /\ (Occurs(trace, "extracted") /\ ~NonNegativeInteger(paymentOption.Amount)) =>
          /\ pc \in {"extracted", "done"}
          /\ paymentPayload = NoPayload
          /\ ~Occurs(trace, "signed")
          /\ Len(requests) = 1
          /\ pc = "done" => /\ result.kind = "PaymentError"
                            /\ LastStep = "sign-failed"
                            /\ LedgerUnchanged

\* A call whose challenge asked for "1.5" ended at the signing step.
C30_Witness ==
    /\ pc = "done"
    /\ paymentOption.Amount = S_frac
    /\ LastStep = "sign-failed"
    /\ err = "invalid amount"
    /\ Len(requests) = 1

\* A call whose challenge asked for "-5" ended at the signing step: the
\* string parses, the negative value cannot be hashed as a uint256.
NegativeAmountIsNotHashed ==
    /\ pc = "done"
    /\ paymentOption.Amount = S_neg
    /\ LastStep = "sign-failed"
    /\ err = "failed to hash message"
    /\ Len(requests) = 1

\* ------------------------------------------- the accepted field (C31)

\* The accepted object of the payload built in this call.
Accepted == PayloadDoc(paymentPayload).accepted

\* The domain that was signed for the payload built in this call.
SignedDomain == PayloadDoc(paymentPayload).payload.signature.domain

\* C31: the accepted field of a built payload echoes the option extracted
\* from the challenge: scheme, network, amount, asset, payTo and
\* maxTimeoutSeconds are the option's, and its extra map is exactly the
\* resolved token name and version (the option's extra strings, else
\* "USD Coin" and "2"), the same two that the signed domain carries.
C31_AcceptedEchoesOption ==
    paymentPayload.enc = "b64" =>
        /\ Accepted.scheme = paymentOption.Scheme
        /\ Accepted.network = paymentOption.Network
        /\ Accepted.amount = JStr(paymentOption.Amount)
        /\ Accepted.asset = paymentOption.Asset
        /\ Accepted.payTo = paymentOption.PayTo
        /\ Accepted.maxTimeoutSeconds = paymentOption.MaxTimeoutSeconds
        /\ Accepted.extra = [name |-> JStr(TokenName(paymentOption.Extra)),
                             version |-> JStr(TokenVersion(paymentOption.Extra))]
        /\ Accepted.extra.name.s = SignedDomain.name
        /\ Accepted.extra.version.s = SignedDomain.version

\* A payload was built and sent for an option of scheme "upto" on another
\* token, and its accepted field says "exact" and Base USDC.
C31_Witness ==
    /\ PaymentCall
    /\ Len(requests) = 2
    /\ paymentOption.Scheme = "upto"
    /\ paymentOption.Asset = OtherAsset
    /\ Accepted.scheme = "exact"
    /\ Accepted.asset = USDCBase

\* What does hold of the accepted field: everything but scheme and asset is
\* the option's, scheme and asset are the two literals of the source.
AcceptedEchoesAllButSchemeAndAsset ==
    paymentPayload.enc = "b64" =>
        /\ Accepted.scheme = "exact"
        /\ Accepted.asset = USDCBase
        /\ Accepted.network = paymentOption.Network
        /\ Accepted.amount = JStr(paymentOption.Amount)
        /\ Accepted.payTo = paymentOption.PayTo
        /\ Accepted.maxTimeoutSeconds = paymentOption.MaxTimeoutSeconds
        /\ Accepted.extra = [name |-> JStr(TokenName(paymentOption.Extra)),
                             version |-> JStr(TokenVersion(paymentOption.Extra))]
        /\ Accepted.extra.name.s = SignedDomain.name
        /\ Accepted.extra.version.s = SignedDomain.version

\* The option named its own token name and version and the payload and the
\* signed domain both carry them.
OptionNamesToken ==
    /\ Len(requests) = 2
    /\ MapString(paymentOption.Extra, "name").ok
    /\ Accepted.extra.name = JStr(<<"USDC">>)
    /\ SignedDomain.version = <<"1">>

\* --------------------------------------------- the resource URL (C32)

\* The resource URL the challenge of this call states ("" when it states none).
ChallengeResourceURL == ParsePaymentRequired(RecoverHeader(resp)).req.Resource.URL

\* The challenge document of this call has a "resource" object.
ChallengeHasResource ==
    "resource" \in DOMAIN Base64Decode(RecoverHeader(resp)).text.doc

\* C32: the resource URL of a built payload is the challenge's resource URL,
\* character for character, when that is not empty, and the URL of the
\* original request (API base followed by the endpoint) when the challenge's
\* resource URL is empty or the challenge has no resource.
C32_ResourceURL ==
    paymentPayload.enc = "b64" =>
        /\ requests[1].url = apiURL[cur] \o Endpoint(cur)
        /\ ChallengeResourceURL # "" =>
              PayloadDoc(paymentPayload).resource.url = ChallengeResourceURL
        /\ ChallengeResourceURL = "" =>
              PayloadDoc(paymentPayload).resource.url = requests[1].url

\* The server named a resource URL other than the request's and the payload
\* sent carries the server's.
C32_Witness ==
    /\ PaymentCall
    /\ Len(requests) = 2
    /\ ChallengeResourceURL = "https://res.example/chat"
    /\ requests[1].url = "https://blockrun.ai/api/v1/images/generations"
    /\ PayloadDoc(requests[2].paymentSignature).resource.url = "https://res.example/chat"

\* The server sent a resource with an empty URL and the payload carries the
\* request URL.
EmptyResourceURL ==
    /\ Len(requests) = 2
    /\ ChallengeHasResource
    /\ ChallengeResourceURL = ""
    /\ PayloadDoc(requests[2].paymentSignature).resource.url
          = "https://blockrun.ai/api/v1/chat/completions"

\* The server sent no resource at all and the payload carries the request URL.
AbsentResource ==
    /\ Len(requests) = 2
    /\ ~ChallengeHasResource
    /\ PayloadDoc(requests[2].paymentSignature).resource.url = requests[1].url

\* ----------------------------------------------- the extensions (C33)

\* The extensions map of the requirement parsed from this call's challenge.
ChallengeExtensions == ParsePaymentRequired(RecoverHeader(resp)).req.Extensions

\* C33: the extensions of the parsed requirement reach the payload as they
\* are: the requirement held by the call keeps the map it was parsed with,
\* a built payload's "extensions" is that map, key for key, and a payload
\* built for a requirement without extensions (none, or an empty object) has
\* no "extensions" key.
C33_ExtensionsPassThrough ==
    paymentPayload.enc = "b64" =>
        /\ paymentReq.Extensions = ChallengeExtensions
        /\ (~ChallengeExtensions.isNil /\ DOMAIN ChallengeExtensions.kv # {}) =>
              /\ "extensions" \in DOMAIN PayloadDoc(paymentPayload)
              /\ PayloadDoc(paymentPayload).extensions = ChallengeExtensions.kv
        /\ (ChallengeExtensions.isNil \/ DOMAIN ChallengeExtensions.kv = {}) =>
              "extensions" \notin DOMAIN PayloadDoc(paymentPayload)

\* The challenge listed an extension and the payload sent lists the same.
C33_Witness ==
    /\ PaymentCall
    /\ Len(requests) = 2
    /\ ChallengeExtensions = MakeMap(ExtensionsDoc)
    /\ PayloadDoc(requests[2].paymentSignature).extensions = ExtensionsDoc

\* The challenge had no extensions and the payload sent has no such key.
NoExtensionsOmitted ==
    /\ Len(requests) = 2
    /\ ChallengeExtensions.isNil
    /\ "extensions" \notin DOMAIN PayloadDoc(requests[2].paymentSignature)

\* The challenge had an empty extensions object and the payload sent has no
\* such key.
EmptyExtensionsOmitted ==
    /\ Len(requests) = 2
    /\ ChallengeExtensions = MakeMap(NoKeys)
    /\ "extensions" \notin DOMAIN PayloadDoc(requests[2].paymentSignature)

\* ----------------------------------------------------- the nonce (C34)

\* The nonce of a payload's authorization and the nonce of the message that
\* was signed for it.
PayloadNonce(header) == PayloadDoc(header).payload.authorization.nonce
SignedNonce(header) == PayloadDoc(header).payload.signature.message.nonce

\* In every state: between calls the client holds no payload; a call runs
\* CreatePaymentPayload at most once; a payload held was built in this call,
\* its authorization carries the 32-byte nonce that was signed, and that
\* nonce is the latest value drawn; the retried request carries that payload.
OneNoncePerPayload ==
    /\ pc = "idle" => paymentPayload = NoPayload
    /\ Count(trace, "signed") + Count(trace, "sign-failed") <= 1
    /\ paymentPayload.enc = "b64" =>
          /\ Occurs(trace, "signed")
          /\ PayloadNonce(paymentPayload) = SignedNonce(paymentPayload)
          /\ PayloadNonce(paymentPayload).bytes = 32
          /\ PayloadNonce(paymentPayload).draw = nextNonce - 1
    /\ Len(requests) = 2 => requests[2].paymentSignature = paymentPayload

\* In every step: a value is drawn only by the step that runs
\* CreatePaymentPayload, one value per run (none only when the source
\* fails), and a payload that appears carries the value drawn by that step.
OneDrawPerAttempt ==
    /\ nextNonce' # nextNonce => pc = "extracted" /\ nextNonce' = nextNonce + 1
    /\ (pc = "extracted" /\ pc' # "extracted") =>
          \/ nextNonce' = nextNonce + 1
          \/ nextNonce' = nextNonce /\ err' = "failed to generate nonce"
    /\ (paymentPayload' # paymentPayload /\ paymentPayload'.enc = "b64") =>
          /\ PayloadNonce(paymentPayload').draw = nextNonce
          /\ nextNonce' = nextNonce + 1

\* C34: the nonce source is used exactly once per payment attempt: every
\* run of CreatePaymentPayload draws one new 32-byte nonce, the payload's
\* authorization and the signed message carry that same nonce, and a later
\* call on the client neither finds a payload left over nor sends a nonce
\* drawn before (each payload carries the latest draw, and draws only grow).
C34_FreshNoncePerAttempt == []OneNoncePerPayload /\ [][OneDrawPerAttempt]_vars

\* The second call of a session sent a payload with the second nonce drawn,
\* the first call having sent the first.
C34_Witness ==
    /\ PaymentCall
    /\ nCalls = 2
    /\ Len(requests) = 2
    /\ settledPaid[cur] = 1
    /\ PayloadNonce(requests[2].paymentSignature).draw = 2
    /\ SignedNonce(requests[2].paymentSignature).draw = 2

\* The source failed: nothing was drawn, nothing built, nothing sent.
NonceSourceFailed ==
    /\ pc = "done"
    /\ err = "failed to generate nonce"
    /\ result.kind = "PaymentError"
    /\ paymentPayload = NoPayload
    /\ Len(requests) = 1

\* --------------------------------------------- the recovery byte (C35)

\* The recovery byte of the signature in a payload.
RecoveryByte(header) == PayloadDoc(header).payload.signature.v

\* C35: the recovery byte of the signature in every payload built, and in
\* every payload sent, is 27 or 28 and so never 0 or 1; the recovery ids 0
\* and 1 of the signing primitive become 27 and 28, and a byte that is
\* already 27 or 28 is left as it is.
C35_RecoveryByte ==
    /\ FixV(0) = 27 /\ FixV(1) = 28
    /\ FixV(27) = 27 /\ FixV(28) = 28
    /\ paymentPayload.enc = "b64" =>
          /\ RecoveryByte(paymentPayload) \in {27, 28}
          /\ RecoveryByte(paymentPayload) \notin {0, 1}
    /\ (PaymentCall /\ Len(requests) = 2) =>
          RecoveryByte(requests[2].paymentSignature) \in {27, 28}

\* A payload whose signature came with recovery id 1 was sent with byte 28.
C35_Witness ==
    /\ PaymentCall
    /\ Len(requests) = 2
    /\ RecoveryByte(requests[2].paymentSignature) = 28

\* A payload whose signature came with recovery id 0 was sent with byte 27.
RecoveryIdZeroSent ==
    /\ Len(requests) = 2
    /\ RecoveryByte(requests[2].paymentSignature) = 27

\* ------------------------------------------------ the signed domain (C36)

\* C36: the domain signed for every payload has chain id 8453 and the Base
\* USDC contract as verifying contract, whatever network and asset the
\* option paid names; its other two fields, name and version, are the
\* option's extra["name"] and extra["version"] when those are strings and
\* "USD Coin" and "2" otherwise.
C36_DomainIsBaseUSDC ==
    paymentPayload.enc = "b64" =>
        /\ DOMAIN SignedDomain = {"name", "version", "chainId", "verifyingContract"}
        /\ SignedDomain.chainId = 8453
        /\ SignedDomain.verifyingContract = "0x833589fCD6eDb6E08f4c7C32D4f71b54bdA02913"
        /\ SignedDomain.name =
              IF MapString(paymentOption.Extra, "name").ok
              THEN MapString(paymentOption.Extra, "name").s ELSE <<"USD Coin">>
        /\ SignedDomain.version =
              IF MapString(paymentOption.Extra, "version").ok
              THEN MapString(paymentOption.Extra, "version").s ELSE <<"2">>

\* An option on eip155:1 for another token was paid with a signature over
\* the Base USDC domain.
C36_Witness ==
    /\ PaymentCall
    /\ Len(requests) = 2
    /\ paymentOption.Network = "eip155:1"
    /\ paymentOption.Asset = OtherAsset
    /\ PayloadDoc(requests[2].paymentSignature).payload.signature.domain
          = [name |-> <<"USD Coin">>, version |-> <<"2">>, chainId |-> 8453,
             verifyingContract |-> USDCBase]

\* An option with its own token name and version was paid: the domain takes
\* those two and nothing else from it.
DomainNameVaries ==
    /\ Len(requests) = 2
    /\ PayloadDoc(requests[2].paymentSignature).payload.signature.domain
          = [name |-> <<"USDC">>, version |-> <<"1">>, chainId |-> 8453,
             verifyingContract |-> USDCBase]

\* ------------------------------------------ the two clients (C37)

Other(c) == IF c = "llm" THEN "image" ELSE "llm"

\* requestWithPayment and handlePaymentAndRetry of client c as a function of
\* what the call is given: the request URL and body, the response to the
\* first request, the response to the retried one and the signing
\* environment, and the two fields of the ledger before the call (`body` is
\* what json.Marshal made of the request, no JSON when it failed).  It
\* returns the requests issued, the value returned and the two fields of the
\* ledger after the call.
Handshake(c, base, body, first, retry, env, calls, total) ==
    LET u == base \o Endpoint(c)
        one == << FirstRequest(u, body) >>
        out(reqs, r) ==
            [requests |-> reqs, result |-> r, calls |-> calls, total |-> total]
        header == RecoverHeader(first)
        parsed == ParsePaymentRequired(header)
        details == ExtractPaymentDetails(parsed.req)
        option == details.option
        created ==
            CreatePaymentPayload(privateKey[c], option.PayTo, option.Amount,
                option.Network, ResourceURLOf(parsed.req, u),
                parsed.req.Resource.Description, option.MaxTimeoutSeconds,
                option.Extra, parsed.req.Extensions, env)
        two == Append(one, RetryRequest(u, body, created.header))
    IN  IF ~body.isJSON THEN out(<<>>, PlainError("failed to encode request body"))
        ELSE IF ~URLParses(base, Endpoint(c))
        THEN out(<<>>, PlainError("failed to create request"))
        ELSE IF first.err THEN out(one, PlainError("request failed"))
        ELSE IF first.status = StatusPaymentRequired
        THEN IF header.enc = "absent" THEN out(one, NoChallengeError(first))
             ELSE IF ~parsed.ok
             THEN out(one, PaymentError("Failed to parse payment requirements"))
             ELSE IF ~details.ok
             THEN out(one, PaymentError("Failed to extract payment details"))
             ELSE IF ~created.ok
             THEN out(one, PaymentError("Failed to create payment"))
             ELSE IF retry.err THEN out(two, PlainError("retry request failed"))
             ELSE IF retry.status = StatusPaymentRequired
             THEN out(two, PaymentError("Payment was rejected. Check your wallet balance."))
             ELSE IF retry.status # StatusOK
             THEN out(two, APIError(retry.status, "API error after payment", retry.body))
             ELSE IF ~DecodeInto(ResponseFields(c), retry.body)
             THEN out(two, PlainError("failed to decode response"))
             ELSE [requests |-> two, result |-> Success(retry.body),
                   calls |-> TrackCalls(calls),
                   total |-> TrackTotal(total, option.Amount)]
        ELSE IF first.status # StatusOK
        THEN out(one, APIError(first.status, "API error", first.body))
        ELSE IF ~DecodeInto(ResponseFields(c), first.body)
        THEN out(one, PlainError("failed to decode response"))
        ELSE out(one, Success(first.body))

\* The handshake of client c on the responses and the request body of the
\* call in progress.
HandshakeOf(c, env) ==
    Handshake(c, apiURL[c], jsonBody, resp, retryResp, env,
              ledgerAtCall.calls[cur], ledgerAtCall.total[cur])

\* What the claim compares: how many requests, their headers (and the option
\* the payment header accepts), the kind of outcome and the ledger update.
Summary(h) ==
    [nreq |-> Len(h.requests),
     headers |-> [i \in 1..Len(h.requests) |->
                     [contentType |-> h.requests[i].contentType,
                      paymentSignature |-> h.requests[i].paymentSignature.enc]],
     accepted |-> IF Len(h.requests) = 2
                  THEN PayloadDoc(h.requests[2].paymentSignature).accepted
                  ELSE NoKeys,
     kind |-> h.result.kind, status |-> h.result.status,
     message |-> h.result.message,
     calls |-> h.calls, total |-> h.total]

\* The signing environment the call in progress met, read off what it left:
\* the clock, the nonce and the recovery id from the payload it built, or
\* which primitive failed from the error it recorded (a call that never
\* reached CreatePaymentPayload met none, and any will do).
CallEnv ==
    IF paymentPayload.enc = "b64"
    THEN [now |-> DecVal(Authorization.validAfter.s) + ClockSkew,
          nonceOK |-> TRUE, nonce |-> PayloadNonce(paymentPayload).draw,
          signOK |-> TRUE,
          recid |-> RecoveryByte(paymentPayload) - RecoveryOffset]
    ELSE [now |-> 1700000000, nonceOK |-> err # "failed to generate nonce",
          nonce |-> nextNonce, signOK |-> err # "failed to sign", recid |-> 0]

\* The call that has just ended is the handshake h of its client: the same
\* requests, the same value returned, the same ledger update.
Runs(h) ==
    /\ requests = h.requests
    /\ result = h.result
    /\ sessionCalls[cur] = h.calls
    /\ sessionTotalUSD[cur] = h.total
    /\ sessionCalls[Other(cur)] = ledgerAtCall.calls[Other(cur)]
    /\ sessionTotalUSD[Other(cur)] = ledgerAtCall.total[Other(cur)]

\* A call that entered requestWithPayment has ended.
HandshakeDone == PaymentCall /\ pc = "done" /\ result.kind # "ValidationError"

\* The body of the 200 response that ended the call, if one did, decodes
\* into both response types or into neither.
DecodesAlike ==
    LET final == IF IsStatus(retryResp, StatusOK) THEN retryResp ELSE resp IN
    IsStatus(final, StatusOK) =>
        (DecodeInto(ChatResponseFields, final.body)
            <=> DecodeInto(ImageResponseFields, final.body))

\* C37 (as claimed): a call that has ended is the handshake of its client,
\* and the other client, given the same responses, challenge and signing
\* environment, issues the same number of requests with the same headers,
\* ends in the same kind of outcome and adds the same to its ledger.
C37_SameOutcome ==
    HandshakeDone =>
        LET mine == HandshakeOf(cur, CallEnv)
            theirs == HandshakeOf(Other(cur), CallEnv)
        IN  /\ Runs(mine)
            /\ Summary(theirs) = Summary(mine)

\* C37 (amended): the other client issues the same number of requests with
\* the same headers; it ends in the same kind of outcome with the same
\* ledger update whenever the 200 body that ends the call decodes into both
\* response types or into neither; when it decodes into one type only, that
\* client returns success (and, after a payment, records it) while the other
\* returns a decode error and records nothing.
C37_SameHandshake ==
    HandshakeDone =>
        LET run == HandshakeOf(cur, CallEnv)
            mine == Summary(run)
            theirs == Summary(HandshakeOf(Other(cur), CallEnv))
        IN  /\ Runs(run)
            /\ theirs.nreq = mine.nreq
            /\ theirs.headers = mine.headers
            /\ theirs.accepted = mine.accepted
            /\ DecodesAlike => theirs = mine
            /\ ~DecodesAlike =>
                  /\ {mine.kind, theirs.kind} = {"ok", "error"}
                  /\ \A s \in {mine, theirs} :
                        /\ s.kind = "error" =>
                              /\ s.message = "failed to decode response"
                              /\ s.calls = ledgerAtCall.calls[cur]
                              /\ s.total = ledgerAtCall.total[cur]
                        /\ s.kind = "ok" =>
                              s.calls = ledgerAtCall.calls[cur]
                                            + (IF s.nreq = 2 THEN 1 ELSE 0)

\* The image client paid and succeeded, and the LLM client, given the same
\* two responses, would have sent the same two requests and recorded the
\* same payment.
C37_Witness ==
    /\ PaymentCall
    /\ HandshakeDone
    /\ cur = "image"
    /\ result.kind = "ok"
    /\ Len(requests) = 2
    /\ sessionCalls["image"] = ledgerAtCall.calls["image"] + 1
    /\ Runs(HandshakeOf("image", CallEnv))
    /\ Summary(HandshakeOf("llm", CallEnv)).kind = "ok"
    /\ Summary(HandshakeOf("llm", CallEnv)).calls = sessionCalls["image"]
    /\ Summary(HandshakeOf("llm", CallEnv)).total = sessionTotalUSD["image"]
    /\ sessionTotalUSD["image"] # ledgerAtCall.total["image"]
    /\ Summary(HandshakeOf("llm", CallEnv)).nreq = 2

\* The retried request was answered 200 with {"id": 5, ...}: the LLM client
\* returned a decode error and recorded nothing, where the image client
\* would return success and record the payment.
DecodeDiffers ==
    /\ HandshakeDone
    /\ cur = "llm"
    /\ retryResp = Response(StatusOK, AbsentString, IdNumberBody)
    /\ result = PlainError("failed to decode response")
    /\ LedgerUnchanged
    /\ Runs(HandshakeOf("llm", CallEnv))
    /\ Summary(HandshakeOf("image", CallEnv)).kind = "ok"
    /\ Summary(HandshakeOf("image", CallEnv)).calls = sessionCalls["llm"] + 1

====
